---- MODULE Spec2Model ----
(***************************************************************************)
(* State-machine model of the RLM orchestrator (src/src/rlm.rs):           *)
(* Rlm::completion_with_context and Rlm::execute_with_retry, with the pure *)
(* helpers of src/src/parsing.rs and src/src/types.rs they call.           *)
(*                                                                         *)
(* An LM response is a sequence of segments, each one of                   *)
(*   "FINAL(42)"  free text holding the marker FINAL(42)  (a literal)      *)
(*   "FINAL(x)"   free text holding the marker FINAL(x)   (an identifier)  *)
(*   "repl"       a closed fenced block tagged repl                        *)
(*   "python"     a closed fenced block tagged python                      *)
(* and the empty sequence is a response with neither code nor marker.      *)
(* The LM, the providers' token accounting and the interpreter are the     *)
(* environment: an environment E names the replies the LM may give, the    *)
(* usage a provider may report, the llm_query calls and the bindings an    *)
(* execution may make.                                                     *)
(* The source text of a block is identified by the position of the block   *)
(* in the response it was extracted from.                                  *)
(* A string of the caller (a text prompt, the content of a message, the    *)
(* context payload) is a sequence of atoms; "\n" is the newline.           *)
(* The temperature is in tenths.                                           *)
(***************************************************************************)
EXTENDS Integers, Sequences, FiniteSets, TLC

\* ---------------------------------------------------------------- bounds
MaxIterations == 2
MaxExecRetries == 1
MaxSegs == 2
MaxTok == 1
MaxSubCalls == 1
MaxMsgs == 2

None == "None"

VARIABLES
    max_iterations,    \* RlmConfig.max_iterations
    max_exec_retries,  \* RlmConfig.max_exec_retries
    backend,           \* RlmConfig.backend
    temperature,       \* RlmConfig.temperature
    prompt,            \* the PromptInput passed to completion
    context_payload,   \* the context payload computed by completion
    context,           \* the binding of the name context in the interpreter
    pc,                \* position of completion_with_context
    iteration_num,     \* loop variable of the main loop
    history,           \* Vec<Message>
    iterations,        \* Vec<RlmIteration>
    total_usage,       \* cumulative Usage of the root calls
    sub_call_usage,    \* Arc<Mutex<Usage>> filled by query_fn
    locals,            \* string snapshot of the namespace: the value of x, or None
    response_text,     \* truncated response of the running iteration
    current_code,      \* execute_with_retry: code of the next attempt
    retry_count,       \* execute_with_retry: retries so far
    last_result,       \* execute_with_retry: result of the last attempt
    completion,        \* the returned RlmCompletion, or None
    error,             \* the returned RlmError, or None
    \* ---- observation of the run (history variables, read by no action)
    lm_calls,          \* root LM calls made so far (iteration and fix calls)
    execs,             \* executions within the running execute_with_retry
    fixes,             \* fix requests within the running execute_with_retry
    reported,          \* sum of the usage every LM call reported
    lm_failed,         \* a root LM call returned an error
    add_context_calls, \* the calls of repl.add_context made so far
    root_request,      \* the request of the latest root LM call
    sub_requests,      \* the llm_query calls of the latest execution
    \* ---- the parser applied to one text
    parse,             \* the text, the snapshot, and what the parser returned
    \* ---- the shells around the orchestrator
    stream,            \* rlm_server: one streaming request and the events it sent
    chat,              \* rlm_chat: the chat history and the position of the loop
    agent              \* rlm_agent: one Agent::run and its tool rounds

vars == <<max_iterations, max_exec_retries, backend, temperature, prompt,
          context_payload, context, pc, iteration_num, history,
          iterations, total_usage, sub_call_usage, locals, response_text,
          current_code, retry_count, last_result, completion, error,
          lm_calls, execs, fixes, reported, lm_failed, add_context_calls,
          root_request, sub_requests, parse, stream, chat, agent>>

\* ------------------------------------------------------------ types.rs
Backends == {"OpenAI", "Anthropic"}

UsageDefault == [input_tokens |-> 0, output_tokens |-> 0, total_tokens |-> 0]

UsageNew(input, output) ==
    [input_tokens |-> input, output_tokens |-> output, total_tokens |-> input + output]

UsageAdd(self, other) ==
    [input_tokens  |-> self.input_tokens + other.input_tokens,
     output_tokens |-> self.output_tokens + other.output_tokens,
     total_tokens  |-> self.total_tokens + other.total_tokens]

MessageSystem(content) == [role |-> "system", content |-> content]

MessageUser_as_assistant(content) == [role |-> "assistant", content |-> content]

MessageUser(content) == [role |-> "user", content |-> content]

MessageAssistant(content) == [role |-> "assistant", content |-> content]

Roles == {"system", "user", "assistant"}

\* PromptInput::Text(s) and PromptInput::Messages(msgs)
PromptText(s) == [kind |-> "Text", text |-> s, messages |-> <<>>]

PromptMessages(msgs) == [kind |-> "Messages", text |-> <<>>, messages |-> msgs]

\* RlmConfig::default().temperature
DefaultTemperature == 0

\* ---------------------------------------------------------- parsing.rs
\* a reply is a sequence of segments: a FINAL(...) marker in the free text,
\* a closed block with its tag, or a closed repl block whose source holds
\* the marker FINAL(42) in a gated position (in a comment, say)
Segments == {"FINAL(42)", "FINAL(x)", "repl", "python", "repl:FINAL(42)"}

\* the tag behind the opening fence of a block
Tag(seg) == IF seg = "repl:FINAL(42)" THEN "repl" ELSE seg

IsBlock(seg) == Tag(seg) \in {"repl", "python"}

\* the text of the segment holds a FINAL(...) marker: the search of
\* extract_final_answer_raw runs over the whole text, fences included
HoldsMarker(seg) == ~IsBlock(seg) \/ seg = "repl:FINAL(42)"

\* index of the first segment of r satisfying kind, 0 if none (str::find)
RECURSIVE FindFrom(_, _, _)
FindFrom(r, kind, i) ==
    IF i > Len(r) THEN 0
    ELSE IF Tag(r[i]) = kind THEN i
    ELSE FindFrom(r, kind, i + 1)

Find(r, kind) == FindFrom(r, kind, 1)

\* the inner text of every repl/python block, in order of appearance
RECURSIVE BlocksFrom(_, _)
BlocksFrom(r, i) ==
    IF i > Len(r) THEN <<>>
    ELSE IF IsBlock(r[i]) THEN <<i>> \o BlocksFrom(r, i + 1)
    ELSE BlocksFrom(r, i + 1)

extract_code_blocks(text) == BlocksFrom(text, 1)

\* content of a FINAL(...) marker after variable resolution and unquoting
ResolveFinal(seg, locs) ==
    IF seg = "FINAL(x)"
    THEN IF locs # None THEN locs ELSE "x"
    ELSE "42"

RECURSIVE FinalFrom(_, _, _)
FinalFrom(text, locs, i) ==
    IF i > Len(text) THEN None
    ELSE IF HoldsMarker(text[i]) THEN ResolveFinal(text[i], locs)
    ELSE FinalFrom(text, locs, i + 1)

extract_final_answer_raw(text, locs) == FinalFrom(text, locs, 1)

extract_answer(text, locs) == extract_final_answer_raw(text, locs)

\* a stdout line: does it start with "FINAL_ANSWER: ", and the rest of it
Line(final, text) == [final |-> final, text |-> text]

RECURSIVE StdoutFinalFrom(_, _)
StdoutFinalFrom(stdout, i) ==
    IF i > Len(stdout) THEN None
    ELSE IF stdout[i].final THEN stdout[i].text
    ELSE StdoutFinalFrom(stdout, i + 1)

extract_final_answer_from_stdout(stdout) == StdoutFinalFrom(stdout, 1)

\* -------------------------------------------------------------- rlm.rs
truncate_after_first_repl_block(text) ==
    LET block_start == IF Find(text, "repl") # 0 THEN Find(text, "repl")
                       ELSE Find(text, "python")
    IN  IF block_start = 0 THEN text ELSE SubSeq(text, 1, block_start)


\* body of the user message that reports an execution (a fenced result
\* or error block), as a kind and the lines between the fences
\* stdout.trim() on lines: blank lines at either end are dropped
RECURSIVE TrimLines(_)
TrimLines(stdout) ==
    IF stdout # <<>> /\ Head(stdout).text = "" THEN TrimLines(Tail(stdout))
    ELSE IF stdout # <<>> /\ stdout[Len(stdout)].text = ""
    THEN TrimLines(SubSeq(stdout, 1, Len(stdout) - 1))
    ELSE stdout

format_result_message_without_placeholder(result) ==
    IF result.success
    THEN [kind |-> "result", body |-> TrimLines(result.stdout)]
    ELSE [kind |-> "error", body |-> <<Line(FALSE, result.error)>>]

format_result_message(result) ==
    IF result.success
    THEN IF result.stdout = <<>>
         THEN [kind |-> "result", body |-> <<Line(FALSE, "(no output)")>>]
         ELSE [kind |-> "result", body |-> TrimLines(result.stdout)]
    ELSE [kind |-> "error", body |-> <<Line(FALSE, result.error)>>]

fix_prompt == [kind |-> "fix", body |-> <<>>]

\* the system prompt states the length of the context
build_system_prompt(context_len) == [kind |-> "system", body |-> <<context_len>>]

build_initial_user_prompt == [kind |-> "initial", body |-> <<>>]

\* the continuation prompt: one template, whose wording is the same for
\* every iteration, filled with iteration + 1 and max_iterations
build_continue_prompt(iteration, max) ==
    [kind |-> "continue", wording |-> "NOT done yet - keep working",
     body |-> <<iteration + 1, max>>]

\* parts.join(sep) of strings given as sequences of atoms
RECURSIVE Join(_, _)
Join(parts, sep) ==
    IF parts = <<>> THEN <<>>
    ELSE IF Len(parts) = 1 THEN <<parts[1]>>
    ELSE <<parts[1], sep>> \o Join(Tail(parts), sep)

\* the contents of the messages of msgs whose role is User, in order
RECURSIVE UserContents(_)
UserContents(msgs) ==
    IF msgs = <<>> THEN <<>>
    ELSE IF Head(msgs).role = "user" THEN <<Head(msgs).content>> \o UserContents(Tail(msgs))
    ELSE UserContents(Tail(msgs))

\* the context payload completion computes from its prompt
ContextPayload(p) ==
    IF p.kind = "Text" THEN p.text
    ELSE Join(UserContents(p.messages), "\n")

\* the arguments of the one call of repl.add_context
ContextBinding_empty(payload) == [name |-> "context", value |-> <<>>]

ContextBinding(payload) == [name |-> "context", value |-> payload]

\* the request call_openai builds from the history; an optional field of a
\* request is <<>> when it is not set and <<v>> when it is set to v
openai_request(hist, temp) ==
    [system |-> <<>>, messages |-> hist, temperature |-> <<temp>>]

\* the request call_anthropic builds: the system message is a field of its
\* own, and the temperature is set only when it is positive
anthropic_request(hist, temp) ==
    [system |-> IF \E i \in 1..Len(hist) : hist[i].role = "system"
                THEN <<hist[CHOOSE i \in 1..Len(hist) :
                              /\ hist[i].role = "system"
                              /\ \A j \in 1..(i - 1) : hist[j].role # "system"].content>>
                ELSE <<>>,
     messages |-> SelectSeq(hist, LAMBDA m : m.role # "system"),
     temperature |-> IF temp > 0 THEN <<temp>> ELSE <<>>]

llm_request(b, hist, temp) ==
    IF b = "OpenAI" THEN openai_request(hist, temp) ELSE anthropic_request(hist, temp)

\* the request query_fn builds for llm_query(p)
query_request_sees_history(b, p, temp) ==
    IF b = "OpenAI"
    THEN [system |-> <<>>, messages |-> history \o <<MessageUser(p)>>, temperature |-> <<temp>>]
    ELSE [system |-> <<>>, messages |-> history \o <<MessageUser(p)>>, temperature |-> <<>>]

query_request(b, p, temp) ==
    IF b = "OpenAI"
    THEN [system |-> <<>>, messages |-> <<MessageUser(p)>>, temperature |-> <<temp>>]
    ELSE [system |-> <<>>, messages |-> <<MessageUser(p)>>, temperature |-> <<>>]

\* ------------------------------------------------- the LM (environment)
RECURSIVE SeqsUpTo(_, _)
SeqsUpTo(S, n) ==
    IF n = 0 THEN {<<>>}
    ELSE LET shorter == SeqsUpTo(S, n - 1)
         IN  shorter \cup {Append(q, x) : q \in {t \in shorter : Len(t) = n - 1}, x \in S}

\* every text the LM may reply; FINAL(x) needs a bound name to differ from
\* a literal and is left to the environments whose executions bind names
Replies == SeqsUpTo({"FINAL(42)", "repl", "python"}, MaxSegs)

Tokens == 0..MaxTok

\* the usage field of a provider response: OpenAI reports an optional
\* triple, Anthropic always reports input and output tokens
ProviderUsage(b) ==
    IF b = "OpenAI"
    THEN {[present |-> FALSE, prompt_tokens |-> 0, completion_tokens |-> 0, total_tokens |-> 0]}
         \cup [present : {TRUE}, prompt_tokens : Tokens, completion_tokens : Tokens,
               total_tokens : 0..(2 * MaxTok)]
    ELSE [present : {TRUE}, prompt_tokens : Tokens, completion_tokens : Tokens,
          total_tokens : {0}]

\* Usage returned by call_llm for a provider response
call_openai(u) ==
    IF u.present THEN UsageNew(u.prompt_tokens, u.completion_tokens) ELSE UsageDefault

call_anthropic(u) == UsageNew(u.prompt_tokens, u.completion_tokens)

call_llm(b, u) == IF b = "OpenAI" THEN call_openai(u) ELSE call_anthropic(u)

\* what one successful llm_query adds to the shared sub-call accumulator
query_fn(b, u) ==
    IF b = "OpenAI"
    THEN IF u.present
         THEN [input_tokens |-> u.prompt_tokens, output_tokens |-> u.completion_tokens,
               total_tokens |-> u.total_tokens]
         ELSE UsageDefault
    ELSE [input_tokens |-> u.prompt_tokens, output_tokens |-> u.completion_tokens,
          total_tokens |-> u.prompt_tokens + u.completion_tokens]


\* ------------------------------------------ the interpreter (environment)
ReplResultSuccess(stdout, llm_output) ==
    [stdout |-> stdout, success |-> TRUE, error |-> None, llm_output |-> llm_output]

ReplResultFailure(err) ==
    [stdout |-> <<>>, success |-> FALSE, error |-> err, llm_output |-> None]

NoResult == ReplResultFailure(None)

\* every result execute may return: a failure, or a success whose stdout
\* is empty, plain, or holds a FINAL_ANSWER line; llm_output("o") fills the
\* llm_output slot and prints the line FINAL_ANSWER: o
ExecResults ==
    {ReplResultFailure("error")}
    \cup {ReplResultSuccess(<<>>, None),
          ReplResultSuccess(<<Line(FALSE, "out")>>, None),
          ReplResultSuccess(<<Line(TRUE, "s")>>, None),
          ReplResultSuccess(<<Line(TRUE, "o")>>, "o"),
          ReplResultSuccess(<<Line(TRUE, "s"), Line(TRUE, "o")>>, "o")}

\* the llm_query calls one execution makes: each fails or returns a response
SubOutcomes(b) ==
    {[ok |-> FALSE, usage |-> CHOOSE u \in ProviderUsage(b) : TRUE, prompt |-> "p"]}
    \cup [ok : {TRUE}, usage : ProviderUsage(b), prompt : {"p"}]

SubCallSeqs(b) == SeqsUpTo(SubOutcomes(b), MaxSubCalls)

\* the environment in which the LM is free and the accounting is fixed:
\* every call reports the same usage and no execution calls llm_query
FixedUsage == [present |-> TRUE, prompt_tokens |-> 1, completion_tokens |-> 1,
               total_tokens |-> 2]

EnvLM ==
    [replies |-> Replies,
     usage |-> [b \in Backends |-> {FixedUsage}],
     subs |-> [b \in Backends |-> {<<>>}],
     binds |-> {None},
     rebinds |-> {FALSE},
     prompts |-> {PromptText(<<"a">>)}]

\* the environment in which the accounting is free and the LM replies with
\* at most one segment
EnvUsage ==
    [replies |-> SeqsUpTo({"FINAL(42)", "repl"}, 1),
     usage |-> [b \in Backends |-> ProviderUsage(b)],
     subs |-> [b \in Backends |-> SubCallSeqs(b)],
     binds |-> {None},
     rebinds |-> {FALSE},
     prompts |-> {PromptText(<<"a">>)}]

\* the environment of the caller: every prompt of at most MaxMsgs messages
\* or atoms, executions that call llm_query and may rebind context
Contents == {"a", "b"}

Prompts ==
    {PromptText(t) : t \in {<<>>, <<"a">>, <<"a", "\n", "b">>}}
    \cup {PromptMessages(m) : m \in SeqsUpTo([role : Roles, content : Contents], MaxMsgs)}

SubPrompts == {"p", "q"}

EnvCaller ==
    [replies |-> SeqsUpTo({"FINAL(42)", "repl"}, 1),
     usage |-> [b \in Backends |-> {FixedUsage}],
     subs |-> [b \in Backends |->
                 SeqsUpTo([ok : BOOLEAN, usage : {FixedUsage}, prompt : SubPrompts],
                          MaxSubCalls)],
     binds |-> {None},
     rebinds |-> BOOLEAN,
     prompts |-> Prompts]

\* the requests of the llm_query calls of one execution, with their prompts
RECURSIVE SubRequests(_, _, _)
SubRequests(b, subs, temp) ==
    IF subs = <<>> THEN <<>>
    ELSE <<[prompt |-> Head(subs).prompt,
            request |-> query_request(b, Head(subs).prompt, temp)]>>
         \o SubRequests(b, Tail(subs), temp)

\* the value of context after an execution whose code may rebind it
Rebound == <<"rebound">>

RECURSIVE SubUsage(_, _, _)
SubUsage(b, subs, acc) ==
    IF subs = <<>> THEN acc
    ELSE SubUsage(b, Tail(subs),
                  IF Head(subs).ok THEN UsageAdd(acc, query_fn(b, Head(subs).usage)) ELSE acc)

CodeBlock_counts_attempts(code, result, retries) ==
    [code |-> code, result |-> result, retry_count |-> retries + 1]

CodeBlock(code, result, retries) ==
    [code |-> code, result |-> result, retry_count |-> retries]

\* ------------------------------------------- completion_with_context
NoCompletion == [prompt |-> PromptText(<<>>), response |-> None, usage |-> UsageDefault]

NoRequest == [system |-> <<>>, messages |-> <<>>, temperature |-> <<>>]

Unbound == [bound |-> FALSE, value |-> <<>>]

\* ===================================================== parsing.rs by character
\* A text is a sequence of characters (strings of length one); an optional
\* value is <<>> or <<v>>.
Whitespace == {" ", "\n", "\t", "\r"}

LowerLetters == <<"a", "b", "c", "d", "e", "f", "g", "h", "i", "j", "k", "l", "m",
                  "n", "o", "p", "q", "r", "s", "t", "u", "v", "w", "x", "y", "z">>

UpperLetters == <<"A", "B", "C", "D", "E", "F", "G", "H", "I", "J", "K", "L", "M",
                  "N", "O", "P", "Q", "R", "S", "T", "U", "V", "W", "X", "Y", "Z">>

Digits == {"0", "1", "2", "3", "4", "5", "6", "7", "8", "9"}

Range(q) == {q[i] : i \in 1..Len(q)}

\* char::is_alphabetic, char::is_alphanumeric
IsAlphabetic(c) == c \in Range(LowerLetters) \cup Range(UpperLetters)

IsAlphanumeric(c) == IsAlphabetic(c) \/ c \in Digits

\* str::to_lowercase
LowerChar(c) ==
    IF c \in Range(UpperLetters)
    THEN LowerLetters[CHOOSE i \in 1..Len(UpperLetters) : UpperLetters[i] = c]
    ELSE c

ToLowercase(s) == [i \in 1..Len(s) |-> LowerChar(s[i])]

\* str::starts_with, str::ends_with
StartsWith(s, p) == Len(p) <= Len(s) /\ SubSeq(s, 1, Len(p)) = p

EndsWith(s, p) == Len(p) <= Len(s) /\ SubSeq(s, Len(s) - Len(p) + 1, Len(s)) = p

\* s[from..].find(p): the index of the first occurrence at or after from, 0 if none
FindStr(s, p, from) ==
    LET hits == {i \in from..(Len(s) - Len(p) + 1) : SubSeq(s, i, i + Len(p) - 1) = p}
    IN  IF hits = {} THEN 0 ELSE CHOOSE i \in hits : \A j \in hits : i <= j

Contains(s, p) == FindStr(s, p, 1) # 0

\* str::trim
RECURSIVE TrimStart(_)
TrimStart(s) ==
    IF s # <<>> /\ Head(s) \in Whitespace THEN TrimStart(Tail(s)) ELSE s

RECURSIVE TrimEnd(_)
TrimEnd(s) ==
    IF s # <<>> /\ s[Len(s)] \in Whitespace THEN TrimEnd(SubSeq(s, 1, Len(s) - 1)) ELSE s

Trim(s) == TrimEnd(TrimStart(s))

\* str::replace
RECURSIVE Replace(_, _, _)
Replace(s, from, to) ==
    IF s = <<>> THEN <<>>
    ELSE IF StartsWith(s, from) THEN to \o Replace(SubSeq(s, Len(from) + 1, Len(s)), from, to)
    ELSE <<Head(s)>> \o Replace(Tail(s), from, to)

\* has_code_patterns: an identifier directly followed by "(", or an operator
RECURSIVE HasCall(_, _, _)
HasCall(text, i, in_identifier) ==
    IF i > Len(text) THEN FALSE
    ELSE IF IsAlphabetic(text[i]) \/ text[i] = "_" THEN HasCall(text, i + 1, TRUE)
    ELSE IF text[i] = "(" /\ in_identifier THEN TRUE
    ELSE IF ~IsAlphanumeric(text[i]) /\ text[i] # "_" THEN HasCall(text, i + 1, FALSE)
    ELSE HasCall(text, i + 1, in_identifier)

HasCodePatterns(text) ==
    \/ HasCall(text, 1, FALSE)
    \/ \E i \in 1..Len(text) : text[i] \in {"+", "*", "/", "["}

prose_prefixes ==
    {<<"o", "u", "t", "p", "u", "t", " ", "f", "r", "o", "m">>,
     <<"r", "e", "s", "u", "l", "t", " ", "o", "f">>,
     <<"t", "h", "i", "s", " ", "i", "s", " ", "t", "h", "e">>,
     <<"t", "h", "i", "s", " ", "i", "s", " ", "a">>,
     <<"t", "h", "e", " ", "r", "e", "s", "u", "l", "t">>,
     <<"h", "e", "r", "e", " ", "i", "s">>}

strong_prose_indicators ==
    {<<"e", "x", "e", "c", "u", "t", "i", "n", "g", " ", "c", "o", "d", "e">>,
     <<"e", "x", "e", "c", "u", "t", "i", "o", "n", " ", "o", "f">>,
     <<"d", "e", "m", "o", "n", "s", "t", "r", "a", "t", "i", "o", "n", " ", "o", "f">>,
     <<"e", "x", "a", "m", "p", "l", "e", " ", "o", "f", " ", "h", "o", "w">>}

LooksLikeProse_without_exception(text) ==
    LET lower == ToLowercase(text)
    IN  \/ \E prefix \in prose_prefixes : StartsWith(lower, prefix)
        \/ \E indicator \in strong_prose_indicators : Contains(lower, indicator)

LooksLikeProse(text) ==
    LET lower == ToLowercase(text)
    IN  IF HasCodePatterns(text) THEN FALSE
        ELSE \/ \E prefix \in prose_prefixes : StartsWith(lower, prefix)
             \/ \E indicator \in strong_prose_indicators : Contains(lower, indicator)

IsIdentifier(s) ==
    /\ s # <<>>
    /\ IsAlphabetic(s[1]) \/ s[1] = "_"
    /\ \A i \in 2..Len(s) : IsAlphanumeric(s[i]) \/ s[i] = "_"

\* unescape_string_literal; a single quote character cannot reach it (the
\* scan for the closing parenthesis never leaves such a string)
UnescapeStringLiteral_keeps_quotes(s) ==
    Replace(Replace(s, <<"\\", "n">>, <<"\n">>), <<"\\", "t">>, <<"\t">>)

UnescapeStringLiteral(s) ==
    LET t == Trim(s)
    IN  IF Len(t) >= 2 /\ \/ (t[1] = "\"" /\ t[Len(t)] = "\"")
                          \/ (t[1] = "'" /\ t[Len(t)] = "'")
        THEN Replace(Replace(SubSeq(t, 2, Len(t) - 1), <<"\\", "n">>, <<"\n">>),
                     <<"\\", "t">>, <<"\t">>)
        ELSE s

start_marker == <<"F", "I", "N", "A", "L", "(">>

\* the position gate on the FINAL( found at start_pos
ValidPosition_anywhere(text, start_pos) == TRUE

ValidPosition(text, start_pos) ==
    \/ start_pos = 1
    \/ text[start_pos - 1] = "\n"
    \/ text[start_pos - 1] \in Whitespace
    \/ text[start_pos - 1] = ":"

EmoticonChars == {":", ";", "=", "8", "X", "x", "D", "P", "p"}

\* the ")" at index i of remaining, which brings the depth to zero, is the
\* mouth of an emoticon
IsEmoticon_at_start_too(remaining, i) ==
    i = 1 \/ remaining[i - 1] \in EmoticonChars

IsEmoticon(remaining, i) == i > 1 /\ remaining[i - 1] \in EmoticonChars

\* the loop over remaining that looks for the matching close: the index of
\* the closing parenthesis in remaining, 0 if there is none; in_string is
\* the open quote character, or "" outside a string
RECURSIVE ScanClose(_, _, _, _, _)
ScanClose(remaining, i, depth, in_string, skip_emoticons) ==
    IF i > Len(remaining) THEN 0
    ELSE IF in_string # ""
    THEN IF remaining[i] = in_string /\ ~(i > 1 /\ remaining[i - 1] = "\\")
         THEN ScanClose(remaining, i + 1, depth, "", skip_emoticons)
         ELSE ScanClose(remaining, i + 1, depth, in_string, skip_emoticons)
    ELSE IF remaining[i] \in {"\"", "'"}
    THEN ScanClose(remaining, i + 1, depth, remaining[i], skip_emoticons)
    ELSE IF remaining[i] = "("
    THEN ScanClose(remaining, i + 1, depth + 1, in_string, skip_emoticons)
    ELSE IF remaining[i] = ")"
    THEN IF depth - 1 = 0
         THEN IF skip_emoticons /\ IsEmoticon(remaining, i)
              THEN ScanClose(remaining, i + 1, 1, in_string, skip_emoticons)
              ELSE i
         ELSE ScanClose(remaining, i + 1, depth - 1, in_string, skip_emoticons)
    ELSE ScanClose(remaining, i + 1, depth, in_string, skip_emoticons)

\* the two passes: with emoticon skipping, and without it when that fails
FindClose_without_retry(remaining) == ScanClose(remaining, 1, 1, "", TRUE)

FindClose(remaining) ==
    IF ScanClose(remaining, 1, 1, "", TRUE) # 0
    THEN ScanClose(remaining, 1, 1, "", TRUE)
    ELSE ScanClose(remaining, 1, 1, "", FALSE)

\* a snapshot is a sequence of entries with distinct names; locals.get(name)
Get(locs, name) ==
    LET found == {i \in 1..Len(locs) : locs[i].name = name}
    IN  IF found = {} THEN <<>> ELSE <<locs[CHOOSE i \in found : TRUE].value>>

\* the value of an identifier that the snapshot holds
Resolve_never(content, locs) == <<>>

Resolve(content, locs) ==
    IF IsIdentifier(content) THEN Get(locs, content) ELSE <<>>

\* the while loop of extract_final_answer_raw from search_start on
RECURSIVE SearchFinal(_, _, _)
SearchFinal(text, locs, search_start) ==
    LET start_pos == FindStr(text, start_marker, search_start)
        content_start == start_pos + Len(start_marker)
        remaining == SubSeq(text, content_start, Len(text))
        close == FindClose(remaining)
        content == Trim(SubSeq(remaining, 1, close - 1))
    IN  IF start_pos = 0 THEN <<>>
        ELSE IF ~ValidPosition(text, start_pos) THEN SearchFinal(text, locs, start_pos + 1)
        ELSE IF close = 0 THEN SearchFinal(text, locs, start_pos + 1)
        ELSE IF LooksLikeProse(content)
        THEN SearchFinal(text, locs, content_start + close)
        ELSE IF Resolve(content, locs) # <<>> THEN Resolve(content, locs)
        ELSE <<UnescapeStringLiteral(content)>>

ExtractFinalAnswerRaw(text, locs) == SearchFinal(text, locs, 1)

ExtractAnswer(text, locs) == ExtractFinalAnswerRaw(text, locs)

\* CODE_BLOCK_RE: three backticks, repl or python, a newline, then lazily
\* up to the next three backticks
\* the backquote character, written by its name
Backquote == "BACKQUOTE"

Fence == <<Backquote, Backquote, Backquote>>

OpenRepl == Fence \o <<"r", "e", "p", "l", "\n">>

OpenPython == Fence \o <<"p", "y", "t", "h", "o", "n", "\n">>

\* captures_iter: the leftmost match at or after from, then on after it
RECURSIVE CapturesFrom(_, _)
CapturesFrom(text, from) ==
    LET opens == {i \in from..Len(text) :
                     \/ StartsWith(SubSeq(text, i, Len(text)), OpenRepl)
                     \/ StartsWith(SubSeq(text, i, Len(text)), OpenPython)}
        open == CHOOSE i \in opens : \A j \in opens : i <= j
        inner == IF StartsWith(SubSeq(text, open, Len(text)), OpenRepl)
                 THEN open + Len(OpenRepl) ELSE open + Len(OpenPython)
        close == FindStr(text, Fence, inner)
    IN  IF opens = {} THEN <<>>
        ELSE IF close = 0 THEN <<>>
        ELSE <<SubSeq(text, inner, close - 1)>> \o CapturesFrom(text, close + Len(Fence))

ExtractCodeBlocks(text) == CapturesFrom(text, 1)

\* str::lines: split at "\n", a final empty piece is no line, and a "\r"
\* before the "\n" belongs to the line ending
RECURSIVE SplitLines(_, _)
SplitLines(s, line) ==
    IF s = <<>> THEN IF line = <<>> THEN <<>> ELSE <<line>>
    ELSE IF Head(s) = "\n"
    THEN <<IF line # <<>> /\ line[Len(line)] = "\r"
           THEN SubSeq(line, 1, Len(line) - 1) ELSE line>> \o SplitLines(Tail(s), <<>>)
    ELSE SplitLines(Tail(s), Append(line, Head(s)))

Lines(s) == SplitLines(s, <<>>)

FinalAnswerPrefix_without_space ==
    <<"F", "I", "N", "A", "L", "_", "A", "N", "S", "W", "E", "R", ":">>

FinalAnswerPrefix ==
    <<"F", "I", "N", "A", "L", "_", "A", "N", "S", "W", "E", "R", ":", " ">>

\* the loop over the lines, which returns at the first line with the prefix
RECURSIVE FirstFinalLine_takes_last(_)
FirstFinalLine_takes_last(lines) ==
    IF lines = <<>> THEN <<>>
    ELSE IF FirstFinalLine_takes_last(Tail(lines)) # <<>>
    THEN FirstFinalLine_takes_last(Tail(lines))
    ELSE IF StartsWith(Head(lines), FinalAnswerPrefix)
    THEN <<SubSeq(Head(lines), Len(FinalAnswerPrefix) + 1, Len(Head(lines)))>>
    ELSE <<>>

RECURSIVE FirstFinalLine(_)
FirstFinalLine(lines) ==
    IF lines = <<>> THEN <<>>
    ELSE IF StartsWith(Head(lines), FinalAnswerPrefix)
    THEN <<SubSeq(Head(lines), Len(FinalAnswerPrefix) + 1, Len(Head(lines)))>>
    ELSE FirstFinalLine(Tail(lines))

ExtractFinalAnswerFromStdout(stdout) == FirstFinalLine(Lines(stdout))

\* no text is being parsed
NoParse ==
    [kind |-> "none", pre |-> <<>>, tag |-> <<>>, content |-> <<>>, post |-> <<>>,
     text |-> <<>>, lines |-> <<>>, locals |-> <<>>, stage |-> "idle", answer |-> <<>>, blocks |-> <<>>]

\* no streaming request is being served
NoStream ==
    [pc |-> "idle", response |-> <<>>, words |-> <<>>, events |-> <<>>,
     connected |-> TRUE, outcome |-> "none"]

\* the chat shell is not running
NoChat ==
    [pc |-> "idle", file_context |-> None, history |-> <<>>, input |-> <<>>,
     context_payload |-> <<>>, before |-> <<>>, outcome |-> "none", turns |-> 0]

\* no agent task is running
NoAgent ==
    [pc |-> "idle", max_tool_rounds |-> 0, round |-> 0, task |-> <<>>,
     history |-> <<>>, context |-> <<>>, response |-> <<>>, result |-> <<>>,
     error |-> "None"]

\* the shells are not running
ShellsIdle == stream = NoStream /\ chat = NoChat /\ agent = NoAgent

Temperatures == {DefaultTemperature, 7}

NoError == [kind |-> None, n |-> 0]

\* an Rlm constructed with a configuration, before completion is called
Configured(temperatures) ==
    /\ max_iterations \in 0..MaxIterations
    /\ max_exec_retries \in 0..MaxExecRetries
    /\ backend \in Backends
    /\ temperature \in temperatures
    /\ prompt = PromptText(<<>>)
    /\ context_payload = <<>>
    /\ context = Unbound
    /\ add_context_calls = <<>>
    /\ root_request = NoRequest
    /\ sub_requests = <<>>
    /\ pc = "start"
    /\ iteration_num = 0
    /\ history = <<>>
    /\ iterations = <<>>
    /\ total_usage = UsageDefault
    /\ sub_call_usage = UsageDefault
    /\ locals = None
    /\ response_text = <<>>
    /\ current_code = 0
    /\ retry_count = 0
    /\ last_result = NoResult
    /\ completion = NoCompletion
    /\ error = NoError
    /\ lm_calls = 0
    /\ execs = 0
    /\ fixes = 0
    /\ reported = UsageDefault
    /\ lm_failed = FALSE

Init == Configured({DefaultTemperature}) /\ parse = NoParse /\ ShellsIdle

InitCaller == Configured(Temperatures) /\ parse = NoParse /\ ShellsIdle

\* history.push(message)
Push_overwrites_last(hist, message) == [hist EXCEPT ![Len(hist)] = message]

Push(hist, message) == Append(hist, message)

\* the loop condition of the main loop (for iteration_num in 0..max_iterations)
InLoop_off_by_one == iteration_num <= max_iterations

InLoop == iteration_num < max_iterations

\* if let Some(answer) = final_answer: the early return of the loop
IsSome_never(final_answer) == FALSE

IsSome(final_answer) == final_answer # None

\* code_blocks.first()
First_takes_last(blocks) == blocks[Len(blocks)]

First(blocks) == Head(blocks)

\* execute_with_retry gives up: retry_count >= max_exec_retries
RetriesExhausted_one_more == retry_count > max_exec_retries

RetriesExhausted == retry_count >= max_exec_retries

\* usage of the returned completion: total_usage.add(&sub_usage)
ReturnUsage_without_sub(usage, sub_usage) == usage

ReturnUsage(usage, sub_usage) == UsageAdd(usage, sub_usage)

\* llm_output of the first executed block that has one
RECURSIVE FindLlmOutput(_)
FindLlmOutput(blocks) ==
    IF blocks = <<>> THEN None
    ELSE IF Head(blocks).result.llm_output # None THEN Head(blocks).result.llm_output
    ELSE FindLlmOutput(Tail(blocks))

\* FINAL_ANSWER of the first executed block whose stdout has one
RECURSIVE FindStdoutFinal(_)
FindStdoutFinal(blocks) ==
    IF blocks = <<>> THEN None
    ELSE IF extract_final_answer_from_stdout(Head(blocks).result.stdout) # None
         THEN extract_final_answer_from_stdout(Head(blocks).result.stdout)
    ELSE FindStdoutFinal(Tail(blocks))

\* the terminal answer of an iteration (rlm.rs 500-517)
FinalAnswer_text_first(executed_blocks, text, locs) ==
    LET llm_output_answer == FindLlmOutput(executed_blocks)
        final_from_code == FindStdoutFinal(executed_blocks)
    IN  IF extract_answer(text, locs) # None THEN extract_answer(text, locs)
        ELSE IF final_from_code # None THEN final_from_code
        ELSE llm_output_answer

FinalAnswer_only_after_code(executed_blocks, text, locs) ==
    LET llm_output_answer == FindLlmOutput(executed_blocks)
        final_from_code == FindStdoutFinal(executed_blocks)
    IN  IF llm_output_answer # None THEN llm_output_answer
        ELSE IF final_from_code # None THEN final_from_code
        ELSE IF executed_blocks # <<>> THEN extract_answer(text, locs)
        ELSE None

FinalAnswer(executed_blocks, text, locs) ==
    LET llm_output_answer == FindLlmOutput(executed_blocks)
        final_from_code == FindStdoutFinal(executed_blocks)
    IN  IF llm_output_answer # None THEN llm_output_answer
        ELSE IF final_from_code # None THEN final_from_code
        ELSE extract_answer(text, locs)

\* the end of an iteration, after the block (if any) was executed: record
\* the iteration, then return the completion or push the continue prompt
FinishIteration(hist, usage, sub_usage, locs, text, executed_blocks) ==
    LET final_answer == FinalAnswer(executed_blocks, text, locs)
    IN  /\ iterations' = Append(iterations,
               [iteration |-> iteration_num, response |-> text,
                code_blocks |-> executed_blocks, final_answer |-> final_answer])
        /\ IF IsSome(final_answer)
           THEN /\ total_usage' = ReturnUsage(usage, sub_usage)
                /\ completion' = [prompt |-> PromptText(context_payload),
                                  response |-> final_answer,
                                  usage |-> ReturnUsage(usage, sub_usage)]
                /\ history' = hist
                /\ iteration_num' = iteration_num
                /\ pc' = "done"
           ELSE /\ total_usage' = usage
                /\ completion' = completion
                /\ history' = Push(hist,
                       MessageUser(build_continue_prompt(iteration_num, max_iterations)))
                /\ iteration_num' = iteration_num + 1
                /\ pc' = "loop"

\* completion(prompt): the context payload is computed from the prompt and
\* everything the completion works on is created: the history with the
\* system and the initial user message, the iteration list, the two usage
\* accumulators and the interpreter, to which the payload is bound as
\* context (rlm.rs 154-206, 314-317)
Setup_shares_accumulator(E) ==
    /\ pc = "start"
    /\ \E p \in E.prompts :
         /\ prompt' = p
         /\ context_payload' = ContextPayload(p)
         /\ add_context_calls' = <<ContextBinding(ContextPayload(p))>>
         /\ context' = IF ContextBinding(ContextPayload(p)).name = "context"
                       THEN [bound |-> TRUE, value |-> ContextBinding(ContextPayload(p)).value]
                       ELSE Unbound
         /\ history' = <<MessageSystem(build_system_prompt(Len(ContextPayload(p)))),
                         MessageUser(build_initial_user_prompt)>>
    /\ iterations' = <<>>
    /\ total_usage' = UsageDefault
    /\ sub_call_usage' = sub_call_usage
    /\ locals' = None
    /\ iteration_num' = 0
    /\ response_text' = <<>>
    /\ current_code' = 0
    /\ retry_count' = 0
    /\ last_result' = NoResult
    /\ completion' = NoCompletion
    /\ error' = NoError
    /\ lm_calls' = 0
    /\ execs' = 0
    /\ fixes' = 0
    /\ reported' = UsageDefault
    /\ lm_failed' = FALSE
    /\ root_request' = NoRequest
    /\ sub_requests' = <<>>
    /\ pc' = "loop"
    /\ UNCHANGED <<stream, chat, agent, parse, max_iterations, max_exec_retries, backend, temperature>>

Setup(E) ==
    /\ pc = "start"
    /\ \E p \in E.prompts :
         /\ prompt' = p
         /\ context_payload' = ContextPayload(p)
         /\ add_context_calls' = <<ContextBinding(ContextPayload(p))>>
         /\ context' = IF ContextBinding(ContextPayload(p)).name = "context"
                       THEN [bound |-> TRUE, value |-> ContextBinding(ContextPayload(p)).value]
                       ELSE Unbound
         /\ history' = <<MessageSystem(build_system_prompt(Len(ContextPayload(p)))),
                         MessageUser(build_initial_user_prompt)>>
    /\ iterations' = <<>>
    /\ total_usage' = UsageDefault
    /\ sub_call_usage' = UsageDefault
    /\ locals' = None
    /\ iteration_num' = 0
    /\ response_text' = <<>>
    /\ current_code' = 0
    /\ retry_count' = 0
    /\ last_result' = NoResult
    /\ completion' = NoCompletion
    /\ error' = NoError
    /\ lm_calls' = 0
    /\ execs' = 0
    /\ fixes' = 0
    /\ reported' = UsageDefault
    /\ lm_failed' = FALSE
    /\ root_request' = NoRequest
    /\ sub_requests' = <<>>
    /\ pc' = "loop"
    /\ UNCHANGED <<stream, chat, agent, parse, max_iterations, max_exec_retries, backend, temperature>>

\* completion has returned (a completion or an error) and the caller calls
\* it again on the same Rlm
Restart ==
    /\ pc \in {"done", "failed"}
    /\ pc' = "start"
    /\ UNCHANGED <<stream, chat, agent, parse, max_iterations, max_exec_retries, backend, temperature, prompt,
                   context_payload, context, iteration_num, history, iterations,
                   total_usage, sub_call_usage, locals, response_text, current_code,
                   retry_count, last_result, completion, error, lm_calls, execs, fixes,
                   reported, lm_failed, add_context_calls, root_request, sub_requests>>

\* a root LM call returns an error: it propagates to the caller
TransportError_retried ==
    /\ lm_failed' = TRUE
    /\ lm_calls' = lm_calls + 1
    /\ root_request' = llm_request(backend, history, temperature)
    /\ UNCHANGED <<context, sub_requests>>
    /\ UNCHANGED <<stream, chat, agent, parse, max_iterations, max_exec_retries, backend, temperature, prompt,
                   context_payload, add_context_calls, pc, iteration_num, history,
                   iterations, total_usage, sub_call_usage, locals, response_text,
                   current_code, retry_count, last_result, completion, error, execs,
                   fixes, reported>>

TransportError ==
    /\ pc' = "failed"
    /\ error' = [kind |-> "Transport", n |-> 0]
    /\ lm_failed' = TRUE
    /\ lm_calls' = lm_calls + 1
    /\ root_request' = llm_request(backend, history, temperature)
    /\ UNCHANGED <<context, sub_requests>>
    /\ UNCHANGED <<stream, chat, agent, parse, max_iterations, max_exec_retries, backend, temperature, prompt,
                   context_payload, add_context_calls, iteration_num, history,
                   iterations, total_usage, sub_call_usage, locals, response_text,
                   current_code, retry_count, last_result, completion, execs, fixes,
                   reported>>

\* top of an iteration: call the LM, truncate, push, extract the blocks
IterCallLLM(E) ==
    /\ pc = "loop"
    /\ InLoop
    /\ \/ TransportError
       \/ \E raw_response \in E.replies, u \in E.usage[backend] :
            LET usage == UsageAdd(total_usage, call_llm(backend, u))
                text == truncate_after_first_repl_block(raw_response)
                hist == Push(history, MessageAssistant([kind |-> "assistant", body |-> text]))
                code_blocks == extract_code_blocks(text)
            IN  /\ lm_calls' = lm_calls + 1
                /\ root_request' = llm_request(backend, history, temperature)
                /\ UNCHANGED <<context, sub_requests>>
                /\ reported' = UsageAdd(reported, call_llm(backend, u))
                /\ response_text' = text
                /\ execs' = 0
                /\ fixes' = 0
                /\ IF code_blocks # <<>>
                   THEN /\ current_code' = First(code_blocks)
                        /\ retry_count' = 0
                        /\ pc' = "exec"
                        /\ history' = hist
                        /\ total_usage' = usage
                        /\ UNCHANGED <<iterations, completion, iteration_num>>
                   ELSE /\ FinishIteration(hist, usage, sub_call_usage, locals, text, <<>>)
                        /\ UNCHANGED <<current_code, retry_count>>
                /\ UNCHANGED <<stream, chat, agent, parse, max_iterations, max_exec_retries, backend, temperature, prompt,
                   context_payload, add_context_calls, sub_call_usage,
                               locals, last_result, error, lm_failed>>

\* execute_with_retry: one attempt (rlm.rs 705-738)
Execute(E) ==
    /\ pc = "exec"
    /\ \E result \in ExecResults, x \in E.binds, subs \in E.subs[backend],
          rebind \in E.rebinds :
         LET locs == IF x # None THEN x ELSE locals
             sub_usage == SubUsage(backend, subs, sub_call_usage)
             hist == Push(history, MessageUser(format_result_message(result)))
         IN  /\ locals' = locs
             /\ context' = IF rebind THEN [bound |-> TRUE, value |-> Rebound] ELSE context
             /\ sub_requests' = SubRequests(backend, subs, temperature)
             /\ UNCHANGED root_request
             /\ sub_call_usage' = sub_usage
             /\ reported' = SubUsage(backend, subs, reported)
             /\ last_result' = result
             /\ execs' = execs + 1
             /\ IF result.success \/ RetriesExhausted
                THEN /\ FinishIteration(hist, total_usage, sub_usage, locs, response_text,
                                        <<CodeBlock(current_code, result, retry_count)>>)
                     /\ UNCHANGED <<retry_count, fixes>>
                ELSE /\ retry_count' = retry_count + 1
                     /\ fixes' = fixes + 1
                     /\ history' = Push(hist, MessageUser(fix_prompt))
                     /\ pc' = "fix"
                     /\ UNCHANGED <<iterations, total_usage, completion, iteration_num>>
             /\ UNCHANGED <<stream, chat, agent, parse, max_iterations, max_exec_retries, backend, temperature, prompt,
                   context_payload, add_context_calls, response_text,
                            current_code, error, lm_calls, lm_failed>>

\* execute_with_retry: the LM call of a fix round (rlm.rs 740-757)
FixCallLLM(E) ==
    /\ pc = "fix"
    /\ \/ TransportError
       \/ \E fix_response \in E.replies, u \in E.usage[backend] :
            LET usage == UsageAdd(total_usage, call_llm(backend, u))
                hist == Push(history,
                           MessageAssistant([kind |-> "assistant", body |-> fix_response]))
                fixed_blocks == extract_code_blocks(fix_response)
            IN  /\ lm_calls' = lm_calls + 1
                /\ root_request' = llm_request(backend, history, temperature)
                /\ UNCHANGED <<context, sub_requests>>
                /\ reported' = UsageAdd(reported, call_llm(backend, u))
                /\ IF fixed_blocks # <<>>
                   THEN /\ current_code' = First(fixed_blocks)
                        /\ pc' = "exec"
                        /\ history' = hist
                        /\ total_usage' = usage
                        /\ UNCHANGED <<iterations, completion, iteration_num>>
                   ELSE /\ FinishIteration(hist, usage, sub_call_usage, locals, response_text,
                                           <<CodeBlock(current_code, last_result, retry_count)>>)
                        /\ UNCHANGED current_code
                /\ UNCHANGED <<stream, chat, agent, parse, max_iterations, max_exec_retries, backend, temperature, prompt,
                   context_payload, add_context_calls, sub_call_usage,
                               locals, response_text, retry_count, last_result, error,
                               execs, fixes, lm_failed>>

\* the loop is exhausted (rlm.rs 562)
MaxIterationsReached_wrong_bound ==
    /\ pc = "loop"
    /\ ~InLoop
    /\ pc' = "failed"
    /\ error' = [kind |-> "MaxIterationsReached", n |-> iteration_num + 1]
    /\ UNCHANGED <<context, root_request, sub_requests>>
    /\ UNCHANGED <<stream, chat, agent, parse, max_iterations, max_exec_retries, backend, temperature, prompt,
                   context_payload, add_context_calls, iteration_num, history,
                   iterations, total_usage, sub_call_usage, locals, response_text,
                   current_code, retry_count, last_result, completion,
                   lm_calls, execs, fixes, reported, lm_failed>>

MaxIterationsReached ==
    /\ pc = "loop"
    /\ ~InLoop
    /\ pc' = "failed"
    /\ error' = [kind |-> "MaxIterationsReached", n |-> max_iterations]
    /\ UNCHANGED <<context, root_request, sub_requests>>
    /\ UNCHANGED <<stream, chat, agent, parse, max_iterations, max_exec_retries, backend, temperature, prompt,
                   context_payload, add_context_calls, iteration_num, history,
                   iterations, total_usage, sub_call_usage, locals, response_text,
                   current_code, retry_count, last_result, completion,
                   lm_calls, execs, fixes, reported, lm_failed>>

Next ==
    \/ Setup(EnvLM)
    \/ IterCallLLM(EnvLM)
    \/ Execute(EnvLM)
    \/ FixCallLLM(EnvLM)
    \/ MaxIterationsReached

Spec == Init /\ [][Next]_vars

NextUsage ==
    \/ Setup(EnvUsage)
    \/ IterCallLLM(EnvUsage)
    \/ Execute(EnvUsage)
    \/ FixCallLLM(EnvUsage)
    \/ MaxIterationsReached

\* a completion that has been called goes on: every LM call and every
\* execution returns, and the thread that runs the completion is not stopped
SpecLive == Init /\ [][Next]_vars /\ WF_vars(Next)

SpecUsage == Init /\ [][NextUsage]_vars

NextCaller ==
    \/ Setup(EnvCaller)
    \/ IterCallLLM(EnvCaller)
    \/ Execute(EnvCaller)
    \/ FixCallLLM(EnvCaller)
    \/ MaxIterationsReached

SpecCaller == InitCaller /\ [][NextCaller]_vars

\* an Rlm that serves one completion after the other
EnvReuse ==
    [replies |-> SeqsUpTo({"FINAL(42)", "repl"}, 1),
     usage |-> [b \in Backends |-> {FixedUsage}],
     subs |-> [b \in Backends |->
                 SeqsUpTo([ok : {TRUE}, usage : {FixedUsage}, prompt : {"p"}], MaxSubCalls)],
     binds |-> {None},
     rebinds |-> BOOLEAN,
     prompts |-> {PromptText(<<"a">>), PromptMessages(<<MessageUser("b")>>)}]

NextReuse ==
    \/ Setup(EnvReuse)
    \/ IterCallLLM(EnvReuse)
    \/ Execute(EnvReuse)
    \/ FixCallLLM(EnvReuse)
    \/ MaxIterationsReached
    \/ Restart

SpecReuse == Init /\ [][NextReuse]_vars

\* the LM writes the marker into the code of its block, into its free text,
\* or not at all
EnvCode ==
    [replies |-> SeqsUpTo({"repl:FINAL(42)", "repl", "FINAL(42)"}, 1),
     usage |-> [b \in Backends |-> {FixedUsage}],
     subs |-> [b \in Backends |-> {<<>>}],
     binds |-> {None},
     rebinds |-> {FALSE},
     prompts |-> {PromptText(<<"a">>)}]

NextCode ==
    \/ Setup(EnvCode)
    \/ IterCallLLM(EnvCode)
    \/ Execute(EnvCode)
    \/ FixCallLLM(EnvCode)
    \/ MaxIterationsReached

SpecCode == Init /\ [][NextCode]_vars

\* ================================================= the parser on bounded texts
MaxIdLen == 3
MaxStrLen == 3
MaxPreLen == 2
MaxContentLen == 4
MaxLines == 3

RECURSIVE Flatten(_)
Flatten(qs) == IF qs = <<>> THEN <<>> ELSE Head(qs) \o Flatten(Tail(qs))

NonEmpty(S) == S \ {<<>>}

\* the text "FINAL(" content ")" between pre and post, and a snapshot
FinalInput(pre, content, post, locs) ==
    [kind |-> "final", pre |-> pre, tag |-> <<>>, content |-> content, post |-> post,
     text |-> pre \o start_marker \o content \o <<")">> \o post,
     lines |-> <<>>, locals |-> locs, stage |-> "input", answer |-> <<>>, blocks |-> <<>>]

EmptyLocals == <<>>

Entry(name, value) == [name |-> name, value |-> value]

Snapshots ==
    {EmptyLocals,
     <<Entry(<<"x">>, <<"7">>)>>,
     <<Entry(<<"x">>, <<"\"", "q", "\"">>),
       Entry(<<"a", "1">>, <<"h", "e", "r", "e", " ", "i", "s">>)>>,
     <<Entry(<<"_">>, <<"(", "v">>), Entry(<<"1">>, <<"(", "v">>)>>}

\* names and near-names
IdentifierInputs ==
    {FinalInput(<<>>, c, post, locs) :
        c \in NonEmpty(SeqsUpTo({"x", "_", "1", "a"}, MaxIdLen)),
        post \in {<<>>, <<" ", "b">>},
        locs \in Snapshots}

\* double-quoted literals, some of them with the words of a description
LiteralBodies ==
    SeqsUpTo({"a", "(", ")", "\\", "n", "t", "\"", " "}, MaxStrLen)
      \cup strong_prose_indicators
      \cup {d \o <<" ", "1", "+", "1">> : d \in strong_prose_indicators}
      \cup {p \o <<" ", "x">> : p \in prose_prefixes}

LiteralInputs ==
    {FinalInput(<<>>, <<"\"">> \o s \o <<"\"">>, <<>>, EmptyLocals) : s \in LiteralBodies}

\* the marker behind every short prefix
GateContents == {<<"4", "2">>, <<"x">>, <<"a", " ", "b">>}

GateInputs ==
    {FinalInput(pre, c, post, EmptyLocals) :
        pre \in SeqsUpTo({" ", "\n", "\t", ":", "a", "1", "."}, MaxPreLen),
        c \in GateContents,
        post \in {<<>>, <<" ", "o", "k">>}}

\* descriptions, with and without something that looks like code
Capitalised(s) ==
    [i \in 1..Len(s) |->
        IF i = 1 THEN UpperLetters[CHOOSE k \in 1..Len(LowerLetters) : LowerLetters[k] = s[1]]
        ELSE s[i]]

ProseContents ==
    LET words == prose_prefixes \cup strong_prose_indicators
    IN  {w \o <<" ", "y">> : w \in words}
          \cup {Capitalised(w) \o <<" ", "y">> : w \in words}
          \cup {<<"a", " ">> \o w : w \in words}
          \cup {w \o <<" ", "f", "(", "x", ")">> : w \in words}
          \cup {w \o <<" ", "1", "+", "1">> : w \in words}
          \cup {w \o <<" ", "(", "x", ")">> : w \in words}

ProsePosts ==
    {<<>>,
     <<"\n">> \o start_marker \o <<"4", "2", ")">>,
     <<" ">> \o start_marker \o <<"o", "k", ")">>,
     <<"x">> \o start_marker \o <<"n", "o", ")">>}

ProseInputs ==
    {FinalInput(<<>>, c, post, EmptyLocals) : c \in ProseContents, post \in ProsePosts}

\* parentheses and emoticons
ParenPosts ==
    {<<>>, <<" ", "a">>, <<")">>, <<"a", ")">>, <<" ", "(", "a", ")">>}

ParenInputs ==
    {FinalInput(<<>>, c, post, EmptyLocals) :
        c \in SeqsUpTo({"a", "x", "(", ")", ":", " "}, MaxContentLen),
        post \in ParenPosts}

\* the marker in a comment of the code of a closed repl block
InCodeInputs ==
    {FinalInput(OpenRepl \o <<"#", " ">>, <<"4", "2">>, <<"\n">> \o Fence, EmptyLocals)}

FinalInputs ==
    IdentifierInputs \cup LiteralInputs \cup GateInputs \cup ProseInputs \cup ParenInputs
      \cup InCodeInputs

\* one fenced block with a tag and a body between pre and post
FencedInput(pre, tag, body, post) ==
    [kind |-> "blocks", pre |-> pre, tag |-> tag, content |-> body, post |-> post,
     text |-> pre \o Fence \o tag \o <<"\n">> \o body \o <<"\n">> \o Fence \o post,
     lines |-> <<>>, locals |-> EmptyLocals, stage |-> "input", answer |-> <<>>, blocks |-> <<>>]

Tags ==
    {<<"r", "e", "p", "l">>, <<"p", "y", "t", "h", "o", "n">>, <<"j", "s">>, <<>>,
     <<"r", "e", "p", "l", " ">>, <<"R", "e", "p", "l">>}

BodyPieces == {<<"a">>, <<"\n">>, <<"a">> \o Fence, Fence \o <<"b">>, <<"\n">> \o Fence}

Bodies == {Flatten(ps) : ps \in SeqsUpTo(BodyPieces, 2)}

SecondBlock == <<"\n">> \o OpenPython \o <<"b", "\n">> \o Fence

FencedInputs ==
    {FencedInput(pre, tag, body, post) :
        pre \in {<<>>, <<"a", "\n">>, <<"a">>},
        tag \in Tags,
        body \in Bodies,
        post \in {<<>>, <<"\n", "b">>, <<"b">>, SecondBlock}}

\* the lines a program may print
StdoutLine(raw, final, rest) == [raw |-> raw, final |-> final, rest |-> rest]

StdoutLines ==
    {StdoutLine(FinalAnswerPrefix \o <<"a">>, TRUE, <<"a">>),
     StdoutLine(FinalAnswerPrefix \o <<"b", " ", "c">>, TRUE, <<"b", " ", "c">>),
     StdoutLine(FinalAnswerPrefix, TRUE, <<>>),
     StdoutLine(FinalAnswerPrefix_without_space \o <<"a">>, FALSE, <<>>),
     StdoutLine(<<" ">> \o FinalAnswerPrefix \o <<"a">>, FALSE, <<>>),
     StdoutLine(<<"x">>, FALSE, <<>>),
     StdoutLine(<<>>, FALSE, <<>>)}

RECURSIVE JoinLines(_)
JoinLines(lines) ==
    IF lines = <<>> THEN <<>>
    ELSE IF Len(lines) = 1 THEN lines[1].raw
    ELSE lines[1].raw \o <<"\n">> \o JoinLines(Tail(lines))

StdoutInput(lines, ending) ==
    [kind |-> "stdout", pre |-> <<>>, tag |-> <<>>, content |-> <<>>, post |-> ending,
     text |-> JoinLines(lines) \o ending,
     lines |-> lines, locals |-> EmptyLocals, stage |-> "input", answer |-> <<>>, blocks |-> <<>>]

StdoutInputs ==
    {StdoutInput(lines, ending) :
        lines \in SeqsUpTo(StdoutLines, MaxLines), ending \in {<<>>, <<"\n">>}}

\* the answer the model reply is searched for: extract_answer(text, locals)
ParseFinal ==
    /\ parse.kind = "final"
    /\ parse.stage = "input"
    /\ parse' = [parse EXCEPT !.stage = "parsed",
                              !.answer = ExtractAnswer(parse.text, parse.locals)]
    /\ UNCHANGED <<max_iterations, max_exec_retries, backend, temperature, prompt,
                   context_payload, context, pc, iteration_num, history,
                   iterations, total_usage, sub_call_usage, locals, response_text,
                   current_code, retry_count, last_result, completion, error,
                   lm_calls, execs, fixes, reported, lm_failed, add_context_calls,
                   root_request, sub_requests, stream, chat, agent>>

\* the blocks of the reply: extract_code_blocks(text)
ParseBlocks ==
    /\ parse.kind = "blocks"
    /\ parse.stage = "input"
    /\ parse' = [parse EXCEPT !.stage = "parsed",
                              !.blocks = ExtractCodeBlocks(parse.text)]
    /\ UNCHANGED <<max_iterations, max_exec_retries, backend, temperature, prompt,
                   context_payload, context, pc, iteration_num, history,
                   iterations, total_usage, sub_call_usage, locals, response_text,
                   current_code, retry_count, last_result, completion, error,
                   lm_calls, execs, fixes, reported, lm_failed, add_context_calls,
                   root_request, sub_requests, stream, chat, agent>>

\* the answer printed by the program: extract_final_answer_from_stdout(stdout)
ParseStdout ==
    /\ parse.kind = "stdout"
    /\ parse.stage = "input"
    /\ parse' = [parse EXCEPT !.stage = "parsed",
                              !.answer = ExtractFinalAnswerFromStdout(parse.text)]
    /\ UNCHANGED <<max_iterations, max_exec_retries, backend, temperature, prompt,
                   context_payload, context, pc, iteration_num, history,
                   iterations, total_usage, sub_call_usage, locals, response_text,
                   current_code, retry_count, last_result, completion, error,
                   lm_calls, execs, fixes, reported, lm_failed, add_context_calls,
                   root_request, sub_requests, stream, chat, agent>>

\* the continuation prompt of an iteration of a completion
MaxPromptIterations == 8

\* the loop runs iteration_num over 0..max_iterations - 1
ContinueArgs ==
    {a \in (0..(MaxPromptIterations - 1)) \X (1..MaxPromptIterations) : a[1] < a[2]}

ContinueInputs ==
    {[kind |-> "continue", stage |-> "input", iteration |-> a[1], max_iterations |-> a[2],
      message |-> [kind |-> "none", wording |-> "", body |-> <<>>]] : a \in ContinueArgs}

\* build_continue_prompt(iteration_num, self.config.max_iterations)
BuildContinue ==
    /\ parse.kind = "continue"
    /\ parse.stage = "input"
    /\ parse' = [parse EXCEPT !.stage = "built",
                              !.message = build_continue_prompt(parse.iteration,
                                                                parse.max_iterations)]
    /\ UNCHANGED <<max_iterations, max_exec_retries, backend, temperature, prompt,
                   context_payload, context, pc, iteration_num, history,
                   iterations, total_usage, sub_call_usage, locals, response_text,
                   current_code, retry_count, last_result, completion, error,
                   lm_calls, execs, fixes, reported, lm_failed, add_context_calls,
                   root_request, sub_requests, stream, chat, agent>>

InitParse ==
    /\ Configured({DefaultTemperature})
    /\ max_iterations = MaxIterations
    /\ max_exec_retries = MaxExecRetries
    /\ backend = "OpenAI"
    /\ ShellsIdle
    /\ \/ parse \in FinalInputs
       \/ parse \in FencedInputs
       \/ parse \in StdoutInputs
       \/ parse \in ContinueInputs

NextParse ==
    \/ ParseFinal
    \/ ParseBlocks
    \/ ParseStdout
    \/ BuildContinue

SpecParse == InitParse /\ [][NextParse]_vars


\* ------------------------------------------ rlm_server: handlers.rs

\* the state of the Rlm the shells call into; they drive it only through
\* completion and completion_with_context
orchestrator ==
    <<max_iterations, max_exec_retries, backend, temperature, prompt,
      context_payload, context, pc, iteration_num, history,
      iterations, total_usage, sub_call_usage, locals, response_text,
      current_code, retry_count, last_result, completion, error,
      lm_calls, execs, fixes, reported, lm_failed, add_context_calls,
      root_request, sub_requests>>

MaxResponseLen == 3

\* the responses a completion may return to the server
Responses == SeqsUpTo({"a", " "}, MaxResponseLen)

\* str::split_inclusive(' '): every piece ends with the blank that closes it
RECURSIVE SplitInclusive(_, _)
SplitInclusive(s, piece) ==
    IF s = <<>> THEN (IF piece = <<>> THEN <<>> ELSE <<piece>>)
    ELSE IF Head(s) = " " THEN <<Append(piece, " ")>> \o SplitInclusive(Tail(s), <<>>)
    ELSE SplitInclusive(Tail(s), Append(piece, Head(s)))

\* ChatCompletionChunk::with_role
with_role ==
    [kind |-> "chunk", role |-> "assistant", content |-> <<>>,
     has_content |-> FALSE, finish_reason |-> None]

\* ChatCompletionChunk::with_content
with_content(content) ==
    [kind |-> "chunk", role |-> None, content |-> content,
     has_content |-> TRUE, finish_reason |-> None]

\* ChatCompletionChunk::finished
finished ==
    [kind |-> "chunk", role |-> None, content |-> <<>>,
     has_content |-> FALSE, finish_reason |-> "stop"]

\* Event::default().data("[DONE]")
DoneEvent ==
    [kind |-> "[DONE]", role |-> None, content |-> <<>>,
     has_content |-> FALSE, finish_reason |-> None]

\* format!("Error: {}", e)
ErrorText(e) == <<"Error: ">> \o e

\* tx.blocking_send(event): the event is emitted unless the receiver is gone
blocking_send(event) ==
    IF stream.connected THEN Append(stream.events, event) ELSE stream.events

\* a streaming request arrives; create_rlm may fail, and then the handler
\* answers with a plain error response and opens no event stream
StreamRequest ==
    /\ stream.pc = "request"
    /\ \E created \in BOOLEAN :
          stream' = [stream EXCEPT !.pc = IF created THEN "role" ELSE "rejected"]
    /\ UNCHANGED <<orchestrator, parse, chat, agent>>

\* the blocking task sends the role chunk; a failed send is ignored
SendRole ==
    /\ stream.pc = "role"
    /\ stream' = [stream EXCEPT !.pc = "completion",
                                !.events = blocking_send(with_role)]
    /\ UNCHANGED <<orchestrator, parse, chat, agent>>

\* rlm.completion(prompt) returns a completion or an error
RunCompletion ==
    /\ stream.pc = "completion"
    /\ \/ \E response \in Responses :
             stream' = [stream EXCEPT !.pc = "content",
                                      !.outcome = "ok",
                                      !.response = response,
                                      !.words = SplitInclusive(response, <<>>)]
       \/ stream' = [stream EXCEPT !.pc = "error", !.outcome = "err",
                                   !.response = <<"e">>]
    /\ UNCHANGED <<orchestrator, parse, chat, agent>>

\* one round of the loop over the words: the task returns when the send fails
SendContent ==
    /\ stream.pc = "content"
    /\ stream.words # <<>>
    /\ stream' = [stream EXCEPT !.pc = IF stream.connected THEN "content" ELSE "end",
                                !.events = blocking_send(with_content(Head(stream.words))),
                                !.words = Tail(stream.words)]
    /\ UNCHANGED <<orchestrator, parse, chat, agent>>

\* after the last word the finish chunk is sent; a failed send is ignored
SendFinish ==
    /\ stream.pc = "content"
    /\ stream.words = <<>>
    /\ stream' = [stream EXCEPT !.pc = "done", !.events = blocking_send(finished)]
    /\ UNCHANGED <<orchestrator, parse, chat, agent>>

SendError_then_finish ==
    /\ stream.pc = "error"
    /\ stream' = [stream EXCEPT !.pc = "content",
                                !.events = blocking_send(with_content(ErrorText(stream.response)))]
    /\ UNCHANGED <<orchestrator, parse, chat, agent>>

\* the completion failed: one content chunk carries the error text
SendError ==
    /\ stream.pc = "error"
    /\ stream' = [stream EXCEPT !.pc = "done",
                                !.events = blocking_send(with_content(ErrorText(stream.response)))]
    /\ UNCHANGED <<orchestrator, parse, chat, agent>>

\* the task sends [DONE] and ends, which closes the channel
SendDone ==
    /\ stream.pc = "done"
    /\ stream' = [stream EXCEPT !.pc = "end", !.events = blocking_send(DoneEvent)]
    /\ UNCHANGED <<orchestrator, parse, chat, agent>>

\* the client goes away: the receiver of the channel is dropped
Disconnect ==
    /\ stream.pc \in {"role", "completion", "content", "error", "done"}
    /\ stream.connected
    /\ stream' = [stream EXCEPT !.connected = FALSE]
    /\ UNCHANGED <<orchestrator, parse, chat, agent>>

InitStream ==
    /\ Configured({DefaultTemperature})
    /\ max_iterations = MaxIterations
    /\ max_exec_retries = MaxExecRetries
    /\ backend = "OpenAI"
    /\ parse = NoParse
    /\ stream = [NoStream EXCEPT !.pc = "request"]
    /\ chat = NoChat
    /\ agent = NoAgent

NextStream ==
    \/ StreamRequest
    \/ SendRole
    \/ RunCompletion
    \/ SendContent
    \/ SendFinish
    \/ SendError
    \/ SendDone
    \/ Disconnect

SpecStream == InitStream /\ [][NextStream]_vars


\* --------------------------------------------------- rlm_chat: main.rs

MaxTurns == 3

\* the lines the user may type
ChatLines == {<<>>, <<" ">>, <<"q">>, <<" ", "q">>, <<"p", " ">>}

\* the responses a completion may give to the chat
ChatResponses == {<<"r">>, <<"s">>}

\* ChatMessage { role, content }
ChatMessage(role, content) == [role |-> role, content |-> content]

\* build_context_payload(file_context, history, current_query): the system
\* line, the file, every message but the last one, the query, the open turn
build_context_payload(file_context, chat_history, current_query) ==
    <<ChatMessage("System", <<"You are a super nice AI agent in conversation with User.">>)>>
    \o (IF file_context = None THEN <<>> ELSE <<ChatMessage("File", file_context)>>)
    \o SubSeq(chat_history, 1, Len(chat_history) - 1)
    \o <<ChatMessage("User", current_query), ChatMessage("Assistant", <<>>)>>

\* rl.readline returned a line: an empty one is skipped, any other is pushed
\* to the history as the user message and the payload is built
ReadLine ==
    /\ chat.pc = "prompt"
    /\ chat.turns < MaxTurns
    /\ \E line \in ChatLines :
          LET input == Trim(line)
              pushed == Append(chat.history, ChatMessage("User", input))
          IN  IF input = <<>>
              THEN UNCHANGED chat
              ELSE chat' = [chat EXCEPT
                               !.pc = "completion",
                               !.input = input,
                               !.history = pushed,
                               !.context_payload =
                                   build_context_payload(chat.file_context, pushed, input),
                               !.before = chat.history,
                               !.outcome = "none",
                               !.turns = chat.turns + 1]
    /\ UNCHANGED <<orchestrator, parse, stream, agent>>

\* completion_with_context returned Ok(result): the response is pushed
ChatOk ==
    /\ chat.pc = "completion"
    /\ \E response \in ChatResponses :
          chat' = [chat EXCEPT !.pc = "prompt", !.outcome = "ok",
                               !.history = Append(chat.history,
                                                  ChatMessage("Assistant", response))]
    /\ UNCHANGED <<orchestrator, parse, stream, agent>>

ChatErr_keeps_message ==
    /\ chat.pc = "completion"
    /\ chat' = [chat EXCEPT !.pc = "prompt", !.outcome = "err"]
    /\ UNCHANGED <<orchestrator, parse, stream, agent>>

\* completion_with_context returned Err(e): history.pop()
ChatErr ==
    /\ chat.pc = "completion"
    /\ chat' = [chat EXCEPT !.pc = "prompt", !.outcome = "err",
                            !.history = SubSeq(chat.history, 1, Len(chat.history) - 1)]
    /\ UNCHANGED <<orchestrator, parse, stream, agent>>

\* rl.readline returned Interrupted, Eof or another error: the loop breaks
ReadEnd ==
    /\ chat.pc = "prompt"
    /\ \E reason \in {"Interrupted", "Eof", "Error"} :
          chat' = [chat EXCEPT !.pc = "exit", !.outcome = reason]
    /\ UNCHANGED <<orchestrator, parse, stream, agent>>

InitChat ==
    /\ Configured({DefaultTemperature})
    /\ max_iterations = MaxIterations
    /\ max_exec_retries = MaxExecRetries
    /\ backend = "OpenAI"
    /\ parse = NoParse
    /\ stream = NoStream
    /\ \E file_context \in {None, <<"f">>} :
          chat = [NoChat EXCEPT !.pc = "prompt", !.file_context = file_context]
    /\ agent = NoAgent

NextChat ==
    \/ ReadLine
    \/ ChatOk
    \/ ChatErr
    \/ ReadEnd

SpecChat == InitChat /\ [][NextChat]_vars


\* --------------------------------------------------- rlm_agent: lib.rs

MaxToolRounds == 3

ToolOpen == <<"<tool:", "read_file", ">">>

\* the responses a completion may give to the agent, as token sequences
AgentResponses ==
    { <<"thinking">>,
      <<"<answer>", "42", "</answer>">>,
      ToolOpen \o <<"a">>,
      ToolOpen \o <<" ", "a", "</tool>">>,
      <<"<tool:", "nope", ">", "a", "</tool>">>,
      ToolOpen \o <<"a", "</tool>", "then">> \o ToolOpen \o <<"b", "</tool>">>,
      <<"<answer>", " ", "42", "</answer>", "<done>">>,
      <<"ok", "</done>">>,
      ToolOpen \o <<"a", "</tool>", "<done>">> }

\* ToolCall { name, args }
ToolCall(name, args) == [name |-> name, args |-> args]

\* parse_tool_calls(text), from the position from on
RECURSIVE ToolCallsFrom(_, _)
ToolCallsFrom(text, from) ==
    LET start == FindStr(text, <<"<tool:">>, from)
        name_end == FindStr(text, <<">">>, start + 1)
        end == FindStr(text, <<"</tool>">>, name_end + 1)
    IN  IF start = 0 \/ name_end = 0 \/ end = 0 THEN <<>>
        ELSE <<ToolCall(SubSeq(text, start + 1, name_end - 1),
                        Trim(SubSeq(text, name_end + 1, end - 1)))>>
             \o ToolCallsFrom(text, end + 1)

parse_tool_calls(text) == ToolCallsFrom(text, 1)

\* is_complete(text)
is_complete(text) == Contains(text, <<"<done>">>) \/ Contains(text, <<"</done>">>)

\* extract_answer(text) of the agent: the trimmed text between the answer
\* tags, or None
agent_extract_answer(text) ==
    LET start == FindStr(text, <<"<answer>">>, 1)
        end == FindStr(text, <<"</answer>">>, start + 1)
    IN  IF start = 0 \/ end = 0 THEN None
        ELSE Trim(SubSeq(text, start + 1, end - 1))

\* the names the ToolRegistry knows
RegisteredTools == {<<"read_file">>}

\* the line one tool call adds to tool_output; succeeded is the outcome of a
\* registered tool, an unknown name gives ToolResult::err
ToolOutput(call, succeeded) ==
    IF call.name \notin RegisteredTools
    THEN <<"[">> \o call.name \o <<"] Error: ", "Unknown tool: ">> \o call.name \o <<"\n\n">>
    ELSE IF succeeded
    THEN <<"[">> \o call.name \o <<"] Result:\n", "output", "\n\n">>
    ELSE <<"[">> \o call.name \o <<"] Error: ", "failed", "\n\n">>

\* build_context(task, history): the task prompt, the history, the open turn
build_context(task, agent_history) ==
    <<ChatMessage("TASK", task)>> \o agent_history \o <<ChatMessage("Assistant", <<>>)>>

\* one round of the loop of Agent::run
AgentRound ==
    /\ agent.pc = "run"
    /\ agent.round < agent.max_tool_rounds
    /\ LET built == build_context(agent.task, agent.history)
       IN  \/ agent' = [agent EXCEPT !.pc = "failed", !.context = built,
                                     !.error = "Completion"]
           \/ \E response \in AgentResponses :
                 LET tool_calls == parse_tool_calls(response)
                     said == ChatMessage("Assistant", response)
                 IN  IF is_complete(response)
                     THEN agent' = [agent EXCEPT
                                       !.pc = "returned",
                                       !.context = built,
                                       !.response = response,
                                       !.result =
                                           IF agent_extract_answer(response) # None
                                           THEN agent_extract_answer(response)
                                           ELSE response]
                     ELSE IF tool_calls = <<>>
                     THEN agent' = [agent EXCEPT
                                       !.context = built,
                                       !.response = response,
                                       !.history = Append(agent.history, said),
                                       !.round = agent.round + 1]
                     ELSE \E succeeded \in [1..Len(tool_calls) -> BOOLEAN] :
                             agent' = [agent EXCEPT
                                          !.context = built,
                                          !.response = response,
                                          !.history =
                                              agent.history \o
                                              <<said,
                                                ChatMessage("Tool Results",
                                                    Flatten([i \in 1..Len(tool_calls) |->
                                                        ToolOutput(tool_calls[i], succeeded[i])]))>>,
                                          !.round = agent.round + 1]
    /\ UNCHANGED <<orchestrator, parse, stream, chat>>

\* the rounds are used up: Err(MaxIterationsReached(max_tool_rounds))
AgentExhausted ==
    /\ agent.pc = "run"
    /\ agent.round = agent.max_tool_rounds
    /\ agent' = [agent EXCEPT !.pc = "failed", !.error = "MaxIterationsReached"]
    /\ UNCHANGED <<orchestrator, parse, stream, chat>>

InitAgent ==
    /\ Configured({DefaultTemperature})
    /\ max_iterations = MaxIterations
    /\ max_exec_retries = MaxExecRetries
    /\ backend = "OpenAI"
    /\ parse = NoParse
    /\ stream = NoStream
    /\ chat = NoChat
    /\ \E max_tool_rounds \in 0..MaxToolRounds :
          agent = [NoAgent EXCEPT !.pc = "run", !.max_tool_rounds = max_tool_rounds,
                                  !.task = <<"task">>]

NextAgent ==
    \/ AgentRound
    \/ AgentExhausted

SpecAgent == InitAgent /\ [][NextAgent]_vars


\* ================================================================ claims
Last(q) == q[Len(q)]

RECURSIVE SumRetries(_)
SumRetries(its) ==
    IF its = <<>> THEN 0
    ELSE (IF Head(its).code_blocks = <<>> THEN 0 ELSE Head(its).code_blocks[1].retry_count)
         + SumRetries(Tail(its))

\* the answer of the FINAL(...) marker in the free text of a response
TextFinal(text) ==
    IF \E i \in 1..Len(text) : text[i] = "FINAL(42)" THEN "42" ELSE None

\* C1: when every LM call returns and no iteration yields a terminal
\* answer, the completion fails with MaxIterationsReached(max_iterations)
\* after exactly max_iterations iterations, none of which has an answer,
\* and returns no completion; with max_iterations = 0 the LM is not called.
C1_MaxIterationsReached ==
    /\ (pc = "failed" /\ ~lm_failed) => error.kind = "MaxIterationsReached"
    /\ error.kind = "MaxIterationsReached" =>
          /\ pc = "failed"
          /\ error.n = max_iterations
          /\ Len(iterations) = max_iterations
          /\ \A i \in 1..Len(iterations) : iterations[i].final_answer = None
          /\ completion = NoCompletion
          /\ lm_calls = max_iterations + SumRetries(iterations)
          /\ (max_iterations = 0 => lm_calls = 0)

C1_Witness ==
    /\ pc = "failed"
    /\ error.kind = "MaxIterationsReached"
    /\ max_iterations = 2
    /\ Len(iterations) = 2
    /\ iterations[2].code_blocks # <<>>

\* C2: a returned completion has at most max_iterations iterations, and
\* the final_answer of its last iteration is the completion's response.
C2_ReturnedCompletion ==
    pc = "done" =>
       /\ Len(iterations) >= 1
       /\ Len(iterations) <= max_iterations
       /\ Last(iterations).final_answer # None
       /\ Last(iterations).final_answer = completion.response

C2_Witness ==
    /\ pc = "done"
    /\ Len(iterations) = max_iterations
    /\ max_iterations = 2
    /\ completion.response = "s"

\* C3: the loop stops at the first iteration with a terminal answer, in
\* particular when the executed block has llm_output set: that iteration
\* is the last one recorded, no continue prompt follows it, no LM call is
\* made beyond the recorded iterations and their fix rounds, and only the
\* last iteration of a returned completion has final_answer set.
C3_StopsAtFirstAnswer ==
    /\ \A i \in 1..Len(iterations) :
          /\ (iterations[i].code_blocks # <<>>
              /\ iterations[i].code_blocks[1].result.llm_output # None)
                => iterations[i].final_answer # None
          /\ iterations[i].final_answer # None =>
                /\ i = Len(iterations)
                /\ pc = "done"
                /\ iteration_num = i - 1
                /\ Last(history).content.kind # "continue"
                /\ lm_calls = Len(iterations) + SumRetries(iterations)
    /\ pc = "done" => Last(iterations).final_answer # None

C3_Witness ==
    /\ pc = "done"
    /\ Len(iterations) = 2
    /\ iterations[1].final_answer = None
    /\ iterations[2].code_blocks # <<>>
    /\ iterations[2].code_blocks[1].result.llm_output = "o"
    /\ iterations[2].code_blocks[1].retry_count = 1

\* C4: within one iteration the terminal answer is the llm_output of the
\* executed block if set, else the first FINAL_ANSWER: line of its stdout,
\* else the FINAL(...) of the LM's text; a block that sets llm_output
\* decides the response of the completion whatever else is present.
C4_Precedence ==
    \A i \in 1..Len(iterations) :
       LET it == iterations[i]
           ran == it.code_blocks # <<>>
           res == it.code_blocks[1].result
           lines == {k \in 1..Len(res.stdout) : res.stdout[k].final}
       IN  /\ (ran /\ res.llm_output # None) =>
                 /\ it.final_answer = res.llm_output
                 /\ completion.response = res.llm_output
           /\ (ran /\ res.llm_output = None /\ lines # {}) =>
                 \E k \in lines : /\ \A j \in lines : k <= j
                                  /\ it.final_answer = res.stdout[k].text
           /\ (~ran \/ (res.llm_output = None /\ lines = {})) =>
                 it.final_answer = TextFinal(it.response)

C4_Witness ==
    /\ pc = "done"
    /\ completion.response = "o"
    /\ TextFinal(Last(iterations).response) = "42"
    /\ Last(iterations).code_blocks[1].result.stdout[1].text = "s"

\* C5: within one iteration execute_with_retry executes code at most
\* max_exec_retries + 1 times and sends at most max_exec_retries fix
\* requests, and no recorded retry_count exceeds max_exec_retries.
C5_RetriesBounded ==
    /\ execs <= max_exec_retries + 1
    /\ fixes <= max_exec_retries
    /\ retry_count <= max_exec_retries
    /\ \A i \in 1..Len(iterations) :
          \A k \in 1..Len(iterations[i].code_blocks) :
             iterations[i].code_blocks[k].retry_count <= max_exec_retries

C5_Witness ==
    /\ max_exec_retries = 1
    /\ execs = 2
    /\ fixes = 1
    /\ Len(iterations) >= 1
    /\ Last(iterations).code_blocks # <<>>
    /\ Last(iterations).code_blocks[1].retry_count = 1

\* C6 as stated: once max_exec_retries consecutive executions have failed,
\* execute_with_retry has returned (it is not in a fix round any more).
C6_AsStated ==
    (execs >= 1 /\ ~last_result.success /\ execs = max_exec_retries)
       => pc \notin {"fix", "exec"}

\* C6 amended: an execution error never aborts the completion; after
\* max_exec_retries + 1 consecutive failed executions (the first attempt
\* and max_exec_retries retries) execute_with_retry returns the last
\* CodeBlock with its failure result, the iteration is recorded with that
\* block, the terminal check runs on the text, and without a terminal
\* answer the loop goes on to the next iteration.
C6_ExhaustedRetries ==
    /\ error.kind \in {None, "Transport", "MaxIterationsReached"}
    /\ error.kind = "Transport" => lm_failed
    /\ (~last_result.success /\ execs = max_exec_retries + 1) =>
          /\ pc \in {"loop", "done", "failed"}
          /\ Len(iterations) >= 1
          /\ Last(iterations).code_blocks =
                <<CodeBlock(current_code, last_result, max_exec_retries)>>
          /\ Last(iterations).final_answer = TextFinal(Last(iterations).response)
          /\ IF Last(iterations).final_answer = None
             THEN /\ pc \in {"loop", "failed"}
                  /\ iteration_num = Len(iterations)
                  /\ pc = "loop" => Last(history).content.kind = "continue"
             ELSE pc = "done"

C6_Witness ==
    /\ max_exec_retries = 1
    /\ execs = 2
    /\ ~last_result.success
    /\ pc = "loop"
    /\ InLoop
    /\ Len(iterations) = 1
    /\ ~Last(iterations).code_blocks[1].result.success

\* C7: a failed root LM call (of an iteration or of a fix round) ends the
\* completion at once with the transport error and without a completion,
\* and after it nothing changes: no LM call, execution or history append.
C7_TransportFatal ==
    [][/\ lm_failed' => (pc' = "failed" /\ error'.kind = "Transport"
                         /\ completion' = NoCompletion)
       /\ lm_failed => UNCHANGED vars]_vars

C7_Witness ==
    /\ lm_failed
    /\ pc = "failed"
    /\ fixes = 1
    /\ Last(history).content.kind = "fix"

\* C8: an iteration records at most one CodeBlock: the first repl/python
\* block of the response is the one executed, a response without a block
\* records none, and the executions of an iteration are the attempts of
\* that single entry.
C8_SingleBlock ==
    /\ \A i \in 1..Len(iterations) :
          LET it == iterations[i]
              blocks == {k \in 1..Len(it.response) : IsBlock(it.response[k])}
          IN  /\ Len(it.code_blocks) <= 1
              /\ it.code_blocks = <<>> <=> blocks = {}
              /\ (it.code_blocks # <<>> /\ it.code_blocks[1].retry_count = 0) =>
                    /\ it.code_blocks[1].code \in blocks
                    /\ \A k \in blocks : it.code_blocks[1].code <= k
    /\ (pc = "exec" /\ retry_count = 0) =>
          /\ IsBlock(response_text[current_code])
          /\ \A k \in 1..(current_code - 1) : ~IsBlock(response_text[k])
    /\ execs <= retry_count + 1

C8_Witness ==
    /\ Len(iterations) >= 1
    /\ Last(iterations).response = <<"python", "repl">>
    /\ Len(Last(iterations).code_blocks) = 1
    /\ Last(iterations).code_blocks[1].code = 1
    /\ execs = 1

\* C9: the usage of a returned completion is the component-wise sum of the
\* usage of every root LM call (iteration and fix calls) and of every
\* successful llm_query sub-call, each counted once.
C9_UsageIsSum ==
    pc = "done" => (completion.usage = reported /\ total_usage = reported)

C9_Witness ==
    /\ pc = "done"
    /\ sub_call_usage.input_tokens > 0
    /\ fixes = 1
    /\ lm_calls >= 3
    /\ completion.usage.input_tokens > sub_call_usage.input_tokens

\* C10: after every accumulation the cumulative Usage satisfies
\* total_tokens = input_tokens + output_tokens.
UsageConsistent(u) == u.total_tokens = u.input_tokens + u.output_tokens

C10_TotalIsSum ==
    /\ UsageConsistent(total_usage)
    /\ UsageConsistent(sub_call_usage)
    /\ UsageConsistent(completion.usage)

\* C11: the history is append-only: every step leaves the earlier history
\* as a prefix of the later one (nothing is removed, reordered or
\* rewritten), and it begins with exactly one system message followed by
\* the initial user prompt.
IsPrefix(s, t) == Len(s) <= Len(t) /\ SubSeq(t, 1, Len(s)) = s

C11_AppendOnly ==
    [][/\ IsPrefix(history, history')
       /\ history'[1] = MessageSystem(build_system_prompt(Len(context_payload')))
       /\ history'[2] = MessageUser(build_initial_user_prompt)
       /\ \A i \in 2..Len(history') : history'[i].role # "system"]_vars

C11_Witness ==
    /\ Len(history) = 9
    /\ history[4].content.kind = "error"
    /\ history[5].content.kind = "fix"
    /\ history[9].content.kind = "continue"

\* the history is about to be sent to the LM (call_llm(&history))
SentToLM == pc = "fix" \/ (pc = "loop" /\ InLoop)

\* C12 as stated: in every message list sent to the LM no two consecutive
\* messages after the system message have the same role.
C12_AsStated ==
    SentToLM =>
       \A i \in 2..(Len(history) - 1) : history[i].role # history[i + 1].role

\* C12 amended: in every message list sent to the LM no two consecutive
\* messages are assistant messages and no three are user messages; two
\* consecutive user messages are the report of an execution followed by
\* the continue prompt or the fix prompt.
C12_Roles ==
    SentToLM =>
       /\ \A i \in 2..(Len(history) - 1) :
             /\ ~(history[i].role = "assistant" /\ history[i + 1].role = "assistant")
             /\ (history[i].role = "user" /\ history[i + 1].role = "user") =>
                   /\ history[i].content.kind \in {"result", "error"}
                   /\ history[i + 1].content.kind \in {"continue", "fix"}
       /\ \A i \in 2..(Len(history) - 2) :
             ~(/\ history[i].role = "user"
               /\ history[i + 1].role = "user"
               /\ history[i + 2].role = "user")

C12_Witness ==
    /\ pc = "loop"
    /\ InLoop
    /\ Len(history) = 5
    /\ history[4].role = "user"
    /\ history[4].content.kind = "result"
    /\ history[5].role = "user"

\* C13: every assistant message of the history ends with the first
\* repl/python block of the response it stores: it holds at most one block
\* and nothing after it.
C13_TruncatedAssistant ==
    \A i \in 1..Len(history) :
       history[i].role = "assistant" =>
          \A k \in 1..Len(history[i].content.body) :
             IsBlock(history[i].content.body[k]) => k = Len(history[i].content.body)

\* C14: when the response of an iteration has no repl/python block, nothing
\* is executed, the iteration is recorded with empty code_blocks, the history
\* gains the assistant message and no result message, and the terminal check
\* runs on the text: a FINAL(...) ends the completion in that iteration with
\* its content as the response, and without one the continue prompt follows.
NoBlock(text) == \A k \in 1..Len(text) : ~IsBlock(text[k])

C14_NoBlock ==
    [][(pc = "loop" /\ lm_calls' = lm_calls + 1 /\ ~lm_failed' /\ NoBlock(response_text')) =>
          /\ pc' # "exec"
          /\ execs' = 0
          /\ iterations' = Append(iterations,
                [iteration |-> iteration_num, response |-> response_text',
                 code_blocks |-> <<>>, final_answer |-> TextFinal(response_text')])
          /\ IF TextFinal(response_text') # None
             THEN /\ pc' = "done"
                  /\ completion'.response = TextFinal(response_text')
                  /\ history' = Append(history,
                        MessageAssistant([kind |-> "assistant", body |-> response_text']))
             ELSE /\ pc' = "loop"
                  /\ Len(history') = Len(history) + 2
                  /\ history'[Len(history) + 1] =
                        MessageAssistant([kind |-> "assistant", body |-> response_text'])
                  /\ history'[Len(history) + 2].content.kind = "continue"]_vars

C14_Witness ==
    /\ pc = "done"
    /\ Len(iterations) = 2
    /\ iterations[1].code_blocks = <<>>
    /\ iterations[1].response = <<>>
    /\ iterations[2].code_blocks = <<>>
    /\ completion.response = "42"
    /\ Len(history) = 5

\* C15: when a block has failed k times (1 <= k <= max_exec_retries) and the
\* code of the k-th fix reply succeeds, the iteration records exactly one
\* CodeBlock with retry_count = k whose code is the first block of that fix
\* reply and whose result is the successful one; a terminal signal of that
\* attempt ends the completion in the same iteration.
C15_RetrySucceeds ==
    [][(pc = "exec" /\ retry_count >= 1 /\ execs' = execs + 1 /\ last_result'.success) =>
          /\ execs = retry_count
          /\ fixes = retry_count
          /\ retry_count <= max_exec_retries
          /\ Last(history).role = "assistant"
          /\ current_code = Head(extract_code_blocks(Last(history).content.body))
          /\ iterations' = Append(iterations,
                [iteration |-> iteration_num, response |-> response_text,
                 code_blocks |-> <<[code |-> current_code, result |-> last_result',
                                    retry_count |-> retry_count]>>,
                 final_answer |-> Last(iterations').final_answer])
          /\ last_result'.llm_output # None =>
                /\ pc' = "done"
                /\ completion'.response = last_result'.llm_output
          /\ (last_result'.llm_output = None
              /\ extract_final_answer_from_stdout(last_result'.stdout) # None) =>
                /\ pc' = "done"
                /\ completion'.response = extract_final_answer_from_stdout(last_result'.stdout)]_vars

C15_Witness ==
    /\ pc = "done"
    /\ Len(iterations) = 1
    /\ iterations[1].code_blocks # <<>>
    /\ iterations[1].code_blocks[1].retry_count = 1
    /\ iterations[1].code_blocks[1].code = 2
    /\ iterations[1].code_blocks[1].result.success
    /\ completion.response = "o"

\* C16: the orchestrator calls add_context exactly once, before the first
\* LM call, with the name context and the context payload, and it never
\* writes the binding again: context changes only at that call and by the
\* code of an execution, so unless the code rebinds it, context keeps the
\* payload through every iteration.
C16_ContextBoundOnce ==
    [][/\ add_context_calls' =
             IF pc' = "start" THEN <<>>
             ELSE <<[name |-> "context", value |-> context_payload']>>
       /\ pc' = "start" => (lm_calls' = 0 /\ ~context'.bound)
       /\ context' # context =>
             \/ /\ pc = "start"
                /\ lm_calls = 0
                /\ context' = [bound |-> TRUE, value |-> context_payload']
             \/ /\ pc = "exec"
                /\ context'.value = Rebound
       /\ (pc' # "start" /\ context'.value # Rebound) =>
             context' = [bound |-> TRUE, value |-> context_payload']]_vars

C16_Witness ==
    /\ pc = "loop"
    /\ iteration_num = 1
    /\ iterations[1].code_blocks # <<>>
    /\ lm_calls = 2
    /\ context_payload = <<"a", "\n", "b">>
    /\ context = [bound |-> TRUE, value |-> context_payload]

\* C17: the request of llm_query(p) is the single user message p and nothing
\* else, whatever the context, the history and the earlier sub-calls are.
C17_Stateless ==
    \A i \in 1..Len(sub_requests) :
       /\ sub_requests[i].request.messages =
             <<[role |-> "user", content |-> sub_requests[i].prompt]>>
       /\ sub_requests[i].request.system = <<>>

C17_Witness ==
    /\ Len(iterations) >= 1
    /\ sub_call_usage.input_tokens >= 2
    /\ sub_requests # <<>>
    /\ sub_requests[1].prompt = "q"
    /\ context.value = Rebound
    /\ Len(history) >= 6

\* C18: every LM request, of a root call or of a sub-call, on either
\* provider, carries the configured temperature.
C18_Temperature ==
    /\ lm_calls >= 1 => root_request.temperature = <<temperature>>
    /\ \A i \in 1..Len(sub_requests) :
          sub_requests[i].request.temperature = <<temperature>>

\* C19: the context payload holds the entire prompt: it equals a text
\* prompt, and it contains the content of every message of a message-list
\* prompt, whatever its role, in order.
RECURSIVE ContainsInOrder(_, _)
ContainsInOrder(parts, s) ==
    IF parts = <<>> THEN TRUE
    ELSE IF s = <<>> THEN FALSE
    ELSE IF Head(parts) = Head(s) THEN ContainsInOrder(Tail(parts), Tail(s))
    ELSE ContainsInOrder(parts, Tail(s))

C19_EntirePrompt ==
    pc # "start" =>
       IF prompt.kind = "Text"
       THEN context_payload = prompt.text
       ELSE ContainsInOrder([i \in 1..Len(prompt.messages) |-> prompt.messages[i].content],
                            context_payload)

\* C20: the prompt of a returned completion is the prompt that was passed
\* to completion, for a text and for a message-list prompt.
C20_OriginalPrompt ==
    pc = "done" => completion.prompt = prompt

FinalParsed == parse.kind = "final" /\ parse.stage = "parsed"

Bound(locs, name) == \E i \in 1..Len(locs) : locs[i].name = name

ValueOf(locs, name) == locs[CHOOSE i \in 1..Len(locs) : locs[i].name = name].value

\* C22: for an identifier id, the text "FINAL(" id ")" yields the value the
\* snapshot holds for id, and the name id itself when the snapshot has none.
C22_VariableResolution ==
    (FinalParsed /\ parse.pre = <<>> /\ parse.post = <<>> /\ IsIdentifier(parse.content)) =>
        parse.answer = IF Bound(parse.locals, parse.content)
                       THEN <<ValueOf(parse.locals, parse.content)>>
                       ELSE <<parse.content>>

\* FINAL(a1) was parsed with a snapshot that holds a value for a1, and the
\* value came back as it is, although it reads like a description
C22_Witness ==
    /\ FinalParsed
    /\ parse.text = start_marker \o <<"a", "1", ")">>
    /\ Bound(parse.locals, <<"a", "1">>)
    /\ parse.answer = <<<<"h", "e", "r", "e", " ", "i", "s">>>>

\* FINAL(xa) was parsed with a snapshot that holds x only
C22_WitnessAbsent ==
    /\ FinalParsed
    /\ parse.text = start_marker \o <<"x", "a", ")">>
    /\ Bound(parse.locals, <<"x">>)
    /\ parse.answer = <<<<"x", "a">>>>

\* the text is exactly FINAL("s"); LiteralBody is s
LiteralParsed ==
    /\ FinalParsed
    /\ parse.pre = <<>>
    /\ parse.post = <<>>
    /\ Len(parse.content) >= 2
    /\ parse.content[1] = "\""
    /\ parse.content[Len(parse.content)] = "\""

LiteralBody == SubSeq(parse.content, 2, Len(parse.content) - 1)

\* every double quote of s follows a backslash
NoUnescapedQuote(s) ==
    \A i \in 1..Len(s) : s[i] = "\"" => (i > 1 /\ s[i - 1] = "\\")

\* s with backslash-n turned into a newline and backslash-t into a tab
RECURSIVE Unescaped(_)
Unescaped(s) ==
    IF s = <<>> THEN <<>>
    ELSE IF Len(s) >= 2 /\ s[1] = "\\" /\ s[2] = "n" THEN <<"\n">> \o Unescaped(SubSeq(s, 3, Len(s)))
    ELSE IF Len(s) >= 2 /\ s[1] = "\\" /\ s[2] = "t" THEN <<"\t">> \o Unescaped(SubSeq(s, 3, Len(s)))
    ELSE <<Head(s)>> \o Unescaped(Tail(s))

\* s holds one of the phrases of a description and nothing that looks like code
Describes(s) ==
    /\ \E d \in strong_prose_indicators : Contains(ToLowercase(s), d)
    /\ ~HasCodePatterns(s)

\* C23 as stated: for every s without an unescaped closing quote, FINAL("s")
\* yields s with backslash-n and backslash-t replaced.
C23_AsStated ==
    (LiteralParsed /\ NoUnescapedQuote(LiteralBody)) =>
        parse.answer = <<Unescaped(LiteralBody)>>

\* C23 amended: the same for every s that moreover does not end in a
\* backslash and is not a description (a phrase of a description and no
\* code-like pattern).
C23_Unquoted ==
    (/\ LiteralParsed
     /\ NoUnescapedQuote(LiteralBody)
     /\ ~EndsWith(LiteralBody, <<"\\">>)
     /\ ~Describes(LiteralBody)) =>
        parse.answer = <<Unescaped(LiteralBody)>>

\* FINAL("(\n") was parsed: an unbalanced parenthesis and an escape in s
C23_Witness ==
    /\ LiteralParsed
    /\ LiteralBody = <<"(", "\\", "n">>
    /\ parse.answer = <<<<"(", "\n">>>>

\* FINAL("a\") was parsed: the closing quote counts as escaped, the string
\* never ends and there is no answer
C23_WitnessBackslash ==
    /\ LiteralParsed
    /\ LiteralBody = <<"a", "\\">>
    /\ parse.answer = <<>>

\* the marker is the only one of the text and holds plain content
GateCase ==
    /\ FinalParsed
    /\ parse.content \in GateContents
    /\ parse.post \in {<<>>, <<" ", "o", "k">>}
    /\ parse.locals = EmptyLocals
    /\ ~Contains(parse.pre, start_marker)

C24_WitnessRejected ==
    /\ GateCase
    /\ parse.pre = <<" ", "1">>
    /\ parse.post = <<" ", "o", "k">>
    /\ parse.answer = <<>>

\* the lowercased content starts with a prose prefix or holds an indicator
ReadsAsProse(c) ==
    \/ \E p \in prose_prefixes : StartsWith(ToLowercase(c), p)
    \/ \E d \in strong_prose_indicators : Contains(ToLowercase(c), d)

\* an identifier directly followed by "(", or one of + * / [
CodeLike(c) ==
    \/ \E i \in 1..Len(c) :
          /\ c[i] = "("
          /\ \E j \in 1..(i - 1) :
                /\ IsAlphabetic(c[j]) \/ c[j] = "_"
                /\ \A k \in j..(i - 1) : IsAlphanumeric(c[k]) \/ c[k] = "_"
    \/ \E i \in 1..Len(c) : c[i] \in {"+", "*", "/", "["}

\* every prefix of c has at least as many "(" as ")", and c as many
Opens(c, n) == Cardinality({i \in 1..n : c[i] = "("})

Closes(c, n) == Cardinality({i \in 1..n : c[i] = ")"})

Balanced(c) ==
    /\ \A n \in 1..Len(c) : Closes(c, n) <= Opens(c, n)
    /\ Closes(c, Len(c)) = Opens(c, Len(c))

NoQuotes(c) == \A i \in 1..Len(c) : c[i] \notin {"\"", "'"}

\* what the text behind a rejected marker yields
LaterAnswer(post) ==
    IF post = <<"\n">> \o start_marker \o <<"4", "2", ")">> THEN <<<<"4", "2">>>>
    ELSE IF post = <<" ">> \o start_marker \o <<"o", "k", ")">> THEN <<<<"o", "k">>>>
    ELSE <<>>

\* the first marker is at offset 0, its content ends where it was written to
\* end, and the text behind it is one of the continuations
ProseCase ==
    /\ FinalParsed
    /\ parse.pre = <<>>
    /\ parse.locals = EmptyLocals
    /\ parse.post \in ProsePosts
    /\ parse.content # <<>>
    /\ Balanced(parse.content)
    /\ NoQuotes(parse.content)
    /\ Last(parse.content) \notin EmoticonChars

\* C25: content that starts with a prose prefix or holds an indicator is
\* rejected unless it holds a code-like pattern; after a rejection the scan
\* goes on behind that marker, so a later valid FINAL(...) is the answer.
C25_ProseRejection ==
    ProseCase =>
        parse.answer = IF ReadsAsProse(parse.content) /\ ~CodeLike(parse.content)
                       THEN LaterAnswer(parse.post)
                       ELSE <<Trim(parse.content)>>

\* FINAL(Output from y) was rejected and the FINAL(42) on the next line
\* was returned
C25_Witness ==
    /\ ProseCase
    /\ parse.content = <<"O", "u", "t", "p", "u", "t", " ", "f", "r", "o", "m", " ", "y">>
    /\ parse.post = <<"\n">> \o start_marker \o <<"4", "2", ")">>
    /\ parse.answer = <<<<"4", "2">>>>

\* FINAL(execution of f(x)) was accepted for its call
C25_WitnessCode ==
    /\ ProseCase
    /\ parse.content = <<"e", "x", "e", "c", "u", "t", "i", "o", "n", " ", "o", "f",
                         " ", "f", "(", "x", ")">>
    /\ parse.answer = <<parse.content>>

Least(S) == CHOOSE p \in S : \A q \in S : p <= q

\* the text starts with the marker, holds no quote and at most one "(" behind
\* the marker; Remaining is the text behind the marker
ParenCase ==
    /\ FinalParsed
    /\ parse.pre = <<>>
    /\ parse.locals = EmptyLocals
    /\ Range(parse.content \o parse.post) \subseteq {"a", "x", "(", ")", ":", " "}
    /\ Cardinality({i \in 1..Len(parse.content \o parse.post) :
                       (parse.content \o parse.post)[i] = "("}) <= 1

Remaining == parse.content \o <<")">> \o parse.post

ClosingParens(r) == {p \in 1..Len(r) : r[p] = ")"}

AfterEmoticonChar(r, p) == p > 1 /\ r[p - 1] \in EmoticonChars

\* the ")" that closes the one nested "(" when the counted ones are those of
\* counted: the first counted one behind the "("
NestedClose(r, counted) ==
    {p \in counted :
        /\ \E j \in 1..(p - 1) : r[j] = "("
        /\ \A q \in counted : (q < p) => \A j \in 1..(q - 1) : r[j] # "("}

\* the content up to the closing parenthesis at p, or nothing when p is 0
AnswerUpTo(r, ps) ==
    IF ps = {} THEN <<>> ELSE <<Trim(SubSeq(r, 1, Least(ps) - 1))>>

\* the retry: the first ")" that does not close the nested "("
PlainCloses(r) == ClosingParens(r) \ NestedClose(r, ClosingParens(r))

C26_WitnessRetry ==
    /\ ParenCase
    /\ parse.text = start_marker \o <<"a", " ", ":", ")">>
    /\ parse.answer = <<<<"a", " ", ":">>>>

\* no ")" of c comes right after an emoticon character
NoEmoticonInside(c) == \A p \in ClosingParens(c) : ~AfterEmoticonChar(c, p)

\* the marker written at the start of the text or behind a gate character,
\* with a content of balanced parentheses, without quotes or emoticons
BalancedCase ==
    /\ FinalParsed
    /\ ~Contains(parse.pre, start_marker)
    /\ parse.pre = <<>> \/ Last(parse.pre) \in {" ", "\t", "\n", ":"}
    /\ Balanced(parse.content)
    /\ NoQuotes(parse.content)
    /\ NoEmoticonInside(parse.content)

C27_WitnessRunsOn ==
    /\ BalancedCase
    /\ parse.content = <<"a", "x">>
    /\ parse.post = <<"a", ")">>
    /\ parse.answer = <<<<"a", "x", ")", "a">>>>

\* ------------------------------------------------- claims on code blocks
\* some line of body is made of three backquotes and nothing else
HasFenceLine(body) ==
    \E i \in 1..(Len(body) - 2) :
       /\ SubSeq(body, i, i + 2) = Fence
       /\ i = 1 \/ body[i - 1] = "\n"
       /\ i + 2 = Len(body) \/ body[i + 3] = "\n"

\* a block that opens at the start of a line with a tag and a newline and
\* is closed by the first line made of three backquotes only
FencedCase ==
    /\ parse.kind = "blocks"
    /\ parse.stage = "parsed"
    /\ parse.pre \in {<<>>, <<"a", "\n">>}
    /\ parse.post \in {<<>>, <<"\n", "b">>, SecondBlock}
    /\ ~HasFenceLine(parse.content)

\* C28: the blocks returned are, in order, the inner texts of the blocks
\* that open with the tag repl or python and a newline and close with a
\* line of three backquotes only; blocks with another tag are left out, and
\* backquotes that are not on a line of their own close nothing.
C28_FencedBlocks ==
    FencedCase =>
        parse.blocks =
            (IF parse.tag \in {<<"r", "e", "p", "l">>, <<"p", "y", "t", "h", "o", "n">>}
             THEN <<parse.content \o <<"\n">>>> ELSE <<>>)
            \o (IF parse.post = SecondBlock THEN <<<<"b", "\n">>>> ELSE <<>>)

\* ------------------------------------------------ claims on the output
StdoutParsed == parse.kind = "stdout" /\ parse.stage = "parsed"

FinalLines == {i \in 1..Len(parse.lines) : parse.lines[i].final}

\* C29: when some line of stdout starts with FINAL_ANSWER: and a blank the
\* answer is what follows on the first such line; otherwise there is none.
C29_StdoutAnswer ==
    StdoutParsed =>
        parse.answer = IF FinalLines = {} THEN <<>>
                       ELSE <<parse.lines[Least(FinalLines)].rest>>

\* three lines were printed, the second and the third start with the
\* prefix, and the answer is the rest of the second
C29_Witness ==
    /\ StdoutParsed
    /\ FinalLines = {2, 3}
    /\ parse.lines[1].raw = FinalAnswerPrefix_without_space \o <<"a">>
    /\ parse.lines[2].rest = <<"b", " ", "c">>
    /\ parse.lines[3].rest = <<"a">>
    /\ parse.answer = <<<<"b", " ", "c">>>>

\* ---------------------------------------------- claims on the result message
Reports(hist) == {i \in 1..Len(hist) : hist[i].content.kind \in {"result", "error"}}

\* C30: every execution appends exactly one user message that reports it:
\* a result block with the output when it succeeded, with the literal
\* (no output) when the output was empty, and an error block with the error
\* text when it failed.
C30_ResultMessage ==
    [][pc = "exec" =>
          /\ IsPrefix(history, history')
          /\ Len(history') > Len(history)
          /\ Reports(history') = Reports(history) \cup {Len(history) + 1}
          /\ history'[Len(history) + 1].role = "user"
          /\ history'[Len(history) + 1].content =
                IF ~last_result'.success
                THEN [kind |-> "error", body |-> <<Line(FALSE, last_result'.error)>>]
                ELSE IF last_result'.stdout = <<>>
                THEN [kind |-> "result", body |-> <<Line(FALSE, "(no output)")>>]
                ELSE [kind |-> "result", body |-> last_result'.stdout]]_vars

\* an execution failed and the corrected code then ran without output: the
\* history holds the error block and, behind the fix round, the result
\* block with the literal
C30_Witness ==
    /\ Len(history) >= 7
    /\ history[4] = MessageUser([kind |-> "error", body |-> <<Line(FALSE, "error")>>])
    /\ history[7] = MessageUser([kind |-> "result", body |-> <<Line(FALSE, "(no output)")>>])
    /\ last_result = ReplResultSuccess(<<>>, None)
    /\ Cardinality(Reports(history)) = 2

\* -------------------------------------------- claims on the continuation prompt
\* the band of an iteration: the last three iterations, else past the
\* halfway point, else neither
Band(iteration, max) ==
    IF iteration >= max - 3 THEN "urgent"
    ELSE IF 2 * iteration > max THEN "make progress"
    ELSE "continue"

ContinueBuilt == parse.kind = "continue" /\ parse.stage = "built"

\* C31: the continuation prompt depends on the iteration index and on
\* max_iterations through the urgency band: the prompts of two iterations
\* of different bands differ in their wording.
C31_UrgencyBand ==
    ContinueBuilt =>
        \A a \in ContinueArgs :
            Band(a[1], a[2]) # Band(parse.iteration, parse.max_iterations) =>
                build_continue_prompt(a[1], a[2]).wording # parse.message.wording

\* ------------------------------------------------- claims on termination
\* C32: a completion whose LM calls and executions all return ends with a
\* completion or an error, and up to then it makes at most
\* max_iterations * (1 + max_exec_retries) root LM calls and as many
\* executions: retries take place within an iteration.
C32_Terminates ==
    /\ <>(pc \in {"done", "failed"})
    /\ [](/\ lm_calls <= max_iterations * (1 + max_exec_retries)
          /\ Cardinality(Reports(history)) <= max_iterations * (1 + max_exec_retries)
          /\ Len(iterations) <= max_iterations
          /\ pc = "done" => completion # NoCompletion
          /\ pc = "failed" => error # NoError)

\* a completion failed after as many LM calls and executions as there can be
C32_Witness ==
    /\ pc = "failed"
    /\ error.kind = "MaxIterationsReached"
    /\ max_iterations = MaxIterations
    /\ max_exec_retries = MaxExecRetries
    /\ lm_calls = MaxIterations * (1 + MaxExecRetries)
    /\ Cardinality(Reports(history)) = MaxIterations * (1 + MaxExecRetries)

\* ------------------------------------------------ claims on the retry protocol
ErrorBlock(result) == MessageUser([kind |-> "error", body |-> <<Line(FALSE, result.error)>>])

LastTwo(q) == SubSeq(q, Len(q) - 1, Len(q))

\* C33: a failed execution that is retried extends the history by the error
\* block and the request for a fix, both user messages and in this order;
\* the fix call is made on a history that ends with these two, and its
\* reply is pushed as an assistant message before the next execution.
C33_RetryOrder ==
    [][/\ (pc = "exec" /\ pc' = "fix") =>
             history' = history \o <<ErrorBlock(last_result'), MessageUser(fix_prompt)>>
       /\ (pc = "fix" /\ pc' = "exec") =>
             /\ Len(history) >= 2
             /\ LastTwo(history) = <<ErrorBlock(last_result), MessageUser(fix_prompt)>>
             /\ Len(root_request'.messages) >= 2
             /\ LastTwo(root_request'.messages) = LastTwo(history)
             /\ Len(history') = Len(history) + 1
             /\ IsPrefix(history, history')
             /\ Last(history').role = "assistant"
             /\ Last(history').content.kind = "assistant"]_vars

\* the corrected code is about to run: the history ends with the error
\* block, the request for a fix and the reply, and the fix call saw the
\* first two as its last messages
C33_Witness ==
    /\ pc = "exec"
    /\ retry_count = 1
    /\ Len(history) = 6
    /\ history[4] = ErrorBlock(last_result)
    /\ history[5] = MessageUser(fix_prompt)
    /\ history[6].role = "assistant"
    /\ Len(root_request.messages) >= 2
    /\ LastTwo(root_request.messages) = <<history[4], history[5]>>

\* ------------------------------------------------ claims on the free text
\* some segment of the reply is free text with a marker
FreeTextMarker(r) == \E i \in 1..Len(r) : ~IsBlock(r[i])

\* C34: a FINAL(...) that stands only inside the code of the reply's block
\* ends nothing: a completion is returned only after a reply with a marker
\* in its free text, or after an execution that called llm_output or
\* printed a FINAL_ANSWER line.
C34_FreeTextOnly ==
    pc = "done" =>
        \/ FreeTextMarker(Last(iterations).response)
        \/ FindLlmOutput(Last(iterations).code_blocks) # None
        \/ FindStdoutFinal(Last(iterations).code_blocks) # None

\* ------------------------------------------------ claims on the LM calls
\* C35: every root LM call, of an iteration or for a fix, is made on a
\* history that starts with the only system message and ends with a user
\* message, never with an assistant message.
C35_CallEndsWithUser ==
    [][lm_calls' = lm_calls + 1 =>
          /\ Len(history) >= 2
          /\ history[1].role = "system"
          /\ \A i \in 2..Len(history) : history[i].role # "system"
          /\ Last(history).role = "user"
          /\ ~lm_failed' =>
                /\ root_request'.messages # <<>>
                /\ Last(root_request'.messages).role = "user"]_vars

\* the second iteration call and a fix call have been made: the LM was
\* called on histories ending with the continue prompt and the fix request
C35_Witness ==
    /\ pc = "exec"
    /\ iteration_num = 1
    /\ retry_count = 1
    /\ lm_calls = 3
    /\ root_request.messages # <<>>
    /\ Last(root_request.messages) = MessageUser(fix_prompt)
    /\ \E i \in 1..Len(history) :
          history[i] = MessageUser(build_continue_prompt(0, max_iterations))

\* C36: when the reply to a fix request holds no repl or python block the
\* retry loop ends with that reply: nothing is executed and no fix is
\* requested any more for the block, the recorded block has the code and
\* the failed result of the last attempt and a retry_count that counts this
\* fix request, and a FINAL(...) of the fix reply ends nothing.
C36_FixWithoutBlock ==
    [][(pc = "fix" /\ pc' \notin {"fix", "exec", "failed"}) =>
          /\ pc' \in {"loop", "done"}
          /\ execs' = execs
          /\ fixes' = fixes
          /\ Last(history').role # "user" \/ Last(history').content.kind = "continue"
          /\ Len(iterations') = Len(iterations) + 1
          /\ Len(Last(iterations').code_blocks) = 1
          /\ Last(iterations').code_blocks[1].code = current_code
          /\ Last(iterations').code_blocks[1].result = last_result
          /\ ~last_result.success
          /\ Last(iterations').code_blocks[1].retry_count = retry_count
          /\ retry_count = fixes
          /\ retry_count >= 1
          /\ ~FreeTextMarker(response_text) =>
                (pc' = "loop" /\ Last(iterations').final_answer = None)]_vars

\* the reply to the fix request was FINAL(42) without a block: the
\* iteration was recorded with the failed block and without an answer, and
\* the completion goes on
C36_Witness ==
    /\ pc = "loop"
    /\ Len(iterations) = 1
    /\ Len(history) = 7
    /\ history[5] = MessageUser(fix_prompt)
    /\ history[6] = MessageAssistant([kind |-> "assistant", body |-> <<"FINAL(42)">>])
    /\ history[7].content.kind = "continue"
    /\ iterations[1].final_answer = None
    /\ Len(iterations[1].code_blocks) = 1
    /\ ~iterations[1].code_blocks[1].result.success
    /\ iterations[1].code_blocks[1].retry_count = 1
    /\ max_exec_retries = 1

\* the events of a stream whose completion returned the response
EventsOk(response) ==
    <<with_role>>
    \o [i \in 1..Len(SplitInclusive(response, <<>>)) |->
            with_content(SplitInclusive(response, <<>>)[i])]
    \o <<finished, DoneEvent>>

\* the events of a stream whose completion failed with e
EventsErr(e) == <<with_role, with_content(ErrorText(e)), DoneEvent>>

\* the whole sequence a stream emits when the client stays connected
ExpectedEvents ==
    IF stream.outcome = "ok" THEN EventsOk(stream.response)
    ELSE IF stream.outcome = "err" THEN EventsErr(stream.response)
    ELSE <<with_role>>

\* C37: a streaming request emits the role chunk, the content chunks of the
\* response in order, one finish chunk with finish_reason stop, then [DONE];
\* a failed completion emits the role chunk, one content chunk with the error
\* text, then [DONE]. What was emitted is at every moment a prefix of that
\* sequence, so [DONE] comes at most once and last and no content chunk
\* follows the finish chunk; a client that stayed connected to the end of
\* the task has received the whole sequence.
C37_EventOrder ==
    /\ IsPrefix(stream.events, ExpectedEvents)
    /\ \A i \in 1..Len(stream.events) :
          /\ stream.events[i] = DoneEvent => i = Len(stream.events)
          /\ stream.events[i].finish_reason = "stop" =>
                \A j \in (i + 1)..Len(stream.events) : ~stream.events[j].has_content
    /\ (stream.pc = "end" /\ stream.connected) =>
          /\ stream.events = ExpectedEvents
          /\ Cardinality({i \in 1..Len(stream.events) : stream.events[i] = DoneEvent}) = 1
          /\ stream.events[Len(stream.events)] = DoneEvent
          /\ Flatten([i \in 1..(Len(stream.events) - IF stream.outcome = "ok" THEN 3 ELSE 2) |->
                         stream.events[i + 1].content])
                = IF stream.outcome = "ok" THEN stream.response
                  ELSE ErrorText(stream.response)

\* a client that stayed connected received a response of two words
C37_Witness ==
    /\ stream.pc = "end"
    /\ stream.connected
    /\ stream.outcome = "ok"
    /\ Len(stream.events) = 5
    /\ stream.response = <<"a", " ", "a">>

\* the messages alternate User, Assistant, starting with User
Alternates(chat_history) ==
    \A i \in 1..Len(chat_history) :
        chat_history[i].role = IF i % 2 = 1 THEN "User" ELSE "Assistant"

\* C38: whenever the prompt is shown the chat history alternates User,
\* Assistant, starts with User and has even length, and after a failed
\* completion it is the history from before the user's input; while the
\* completion runs it is that history plus the user message, and the payload
\* holds the earlier turns and the query.
C38_HistoryAlternates ==
    /\ chat.pc \in {"prompt", "exit"} =>
          /\ Alternates(chat.history)
          /\ Len(chat.history) % 2 = 0
          /\ chat.outcome = "err" => chat.history = chat.before
          /\ chat.outcome = "ok" =>
                /\ Len(chat.history) = Len(chat.before) + 2
                /\ SubSeq(chat.history, 1, Len(chat.before) + 1)
                      = Append(chat.before, ChatMessage("User", chat.input))
    /\ chat.pc = "completion" =>
          /\ chat.history = Append(chat.before, ChatMessage("User", chat.input))
          /\ chat.input # <<>>
          /\ Alternates(chat.history)
          /\ \E k \in 1..2 :
                SubSeq(chat.context_payload, k + 1, Len(chat.context_payload))
                    = chat.before \o <<ChatMessage("User", chat.input),
                                        ChatMessage("Assistant", <<>>)>>

\* the prompt is shown after a failed turn that followed a successful and a
\* failed one in either order
C38_Witness ==
    /\ chat.pc = "prompt"
    /\ chat.outcome = "err"
    /\ chat.turns = 3
    /\ Len(chat.history) = 2

\* the response of the last round calls no tool and holds no done marker
PlainResponse ==
    /\ agent.response # <<>>
    /\ ~is_complete(agent.response)
    /\ parse_tool_calls(agent.response) = <<>>

\* C39: a response with no tool calls and no done marker is final: Agent::run
\* returns it as the result of the task and starts no further round.
C39_PlainResponseIsFinal ==
    PlainResponse => agent.pc = "returned" /\ agent.result = agent.response

====
